---- MODULE Spec2Model ----
(***************************************************************************)
(* A model of the precedent engine: the predictive_audit server action     *)
(* (multi-angle retrieval, deduplication, risk tally), the risk classifier *)
(* assignRiskLevel, the document segmenter chunkText /                     *)
(* processExtractedText with its annotator detectTables /                  *)
(* detectRTFKeywords, the ingestion runner with the batch embedding call,  *)
(* the store function match_regulatory_precedents, the chat route with     *)
(* its response stream, and the guidance loader loadGuidanceContext.       *)
(*                                                                         *)
(* Conventions.                                                            *)
(*   - A string is a sequence of one-character strings.                    *)
(*   - A similarity is an integer number of hundredths (0.85 is 85).       *)
(*   - An optional string (string | null | undefined) is a record          *)
(*     [null, str].                                                        *)
(***************************************************************************)
EXTENDS Integers, Sequences, FiniteSets, TLC

VARIABLES
  \* ---- predictive_audit, one request ----
  pc,                  \* position of the request in predictive_audit
  embedCall,           \* the getEmbedding call: "none", "inflight", "ok", "failed"
  query,               \* per angle, its store query: "none", "inflight", "data", "error", "thrown"
  angleResults,        \* angleAResults / angleBResults / angleCResults
  findings,            \* uniqueFindings of the returned result
  riskSummary,         \* riskSummary of the returned result
  executiveSummary,    \* which text executiveSummary holds
  guidanceContextUsed, \* guidanceContext.length > 0
  \* ---- assignRiskLevel, one call ----
  simIn,               \* the similarity argument
  sentIn,              \* the reviewerSentiment argument
  level,               \* the returned RiskLevel, "none" before the call
  \* ---- processExtractedText, one call ----
  fullText,            \* the fullText argument
  options,             \* the options argument, defaults filled in
  chunks,              \* result.chunks
  segDone,             \* whether processExtractedText has returned
  \* ---- the ingestion runner, one run of main ----
  ipc,                 \* position of main: "idle", "start", "processPDFFile",
                       \* "getEmbeddings", "insert", "complete", "exit"
  pdfFiles,            \* the names of the PDF files of the input directory
  fileNo,              \* the position in pdfFiles of the file of the loop
  extraction,          \* per file reached so far, what processPDFFile did
  result,              \* the chunks of the file that passed the filter
  response,            \* response.data of the last embeddings call
  insertRows,          \* rows, the rows handed to insert
  regulatory_precedents, \* the rows of the table
  console,             \* what main has logged per file
  \* ---- match_regulatory_precedents, one call ----
  precedents,          \* the rows of the table, each with its cosine distance
  matchArgs,           \* match_threshold, match_count and the three filters
  matched,             \* the rows returned
  matchDone,           \* whether the function has returned
  \* ---- POST /api/chat, one request ----
  cpc,                 \* where the handler is
  body,                \* the request body: whether it parses, and messages
  provider,            \* the LLM provider the environment has a key for
  httpStatus,          \* the status of the Response returned, 0 before
  streamLog,           \* what happened to the response stream, in order
  received,            \* the chunks streamChatCompletion has yielded
  thrown,              \* what streamChatCompletion threw, if it did
  \* ---- loadGuidanceContext, one call ----
  gpc,                 \* where loadGuidanceContext is
  docs,                \* the docs directory: whether it exists, its files
  maxChars,            \* the argument
  docNo,               \* the position in the PDF files of the file of the loop
  opened,              \* the positions of the files that were read
  guidanceChunks,      \* chunks: per paragraph pushed, its file and text
  totalChars,          \* totalChars
  guidanceContext      \* the value returned

auditVars == <<pc, embedCall, query, angleResults, findings, riskSummary,
               executiveSummary, guidanceContextUsed>>
riskVars == <<simIn, sentIn, level>>
segVars == <<fullText, options, chunks, segDone>>
ingestVars == <<ipc, pdfFiles, fileNo, extraction, result, response,
                insertRows, regulatory_precedents, console>>
matchVars == <<precedents, matchArgs, matched, matchDone>>
chatVars == <<cpc, body, provider, httpStatus, streamLog, received, thrown>>
guideVars == <<gpc, docs, maxChars, docNo, opened, guidanceChunks, totalChars,
               guidanceContext>>
vars == <<auditVars, riskVars, segVars, ingestVars, matchVars, chatVars, guideVars>>

-----------------------------------------------------------------------------
(* Strings                                                                 *)

\* String.prototype.toLowerCase on one character.
LowerChar(c) ==
  CASE c = "A" -> "a" [] c = "B" -> "b" [] c = "C" -> "c" [] c = "D" -> "d"
    [] c = "E" -> "e" [] c = "F" -> "f" [] c = "G" -> "g" [] c = "H" -> "h"
    [] c = "I" -> "i" [] c = "J" -> "j" [] c = "K" -> "k" [] c = "L" -> "l"
    [] c = "M" -> "m" [] c = "N" -> "n" [] c = "O" -> "o" [] c = "P" -> "p"
    [] c = "Q" -> "q" [] c = "R" -> "r" [] c = "S" -> "s" [] c = "T" -> "t"
    [] c = "U" -> "u" [] c = "V" -> "v" [] c = "W" -> "w" [] c = "X" -> "x"
    [] c = "Y" -> "y" [] c = "Z" -> "z" [] OTHER -> c

\* String.prototype.toLowerCase.
ToLowerCase(s) == [i \in 1..Len(s) |-> LowerChar(s[i])]

\* An optional string: a value, or null / undefined.
Some(s) == [null |-> FALSE, str |-> s]
Null == [null |-> TRUE, str |-> <<>>]

\* (v || ""): null, undefined and "" all give "".
OrEmpty(v) == IF v.null THEN <<>> ELSE v.str

-----------------------------------------------------------------------------
(* RiskClassifier: assignRiskLevel                                         *)

\* The thresholds of assignRiskLevel, in hundredths.
CriticalRedMin == 75
ConcernedRedMin == 80
YellowMin == 85

critical == <<"c", "r", "i", "t", "i", "c", "a", "l">>
concerned == <<"c", "o", "n", "c", "e", "r", "n", "e", "d">>

\* Mutant: the Concerned threshold is exclusive (> 0.8 instead of >= 0.8).
assignRiskLevelExclusive(similarity, reviewerSentiment) ==
  LET sentiment == ToLowerCase(OrEmpty(reviewerSentiment)) IN
  IF sentiment = critical /\ similarity >= CriticalRedMin THEN "RED"
  ELSE IF sentiment = critical
          \/ (sentiment = concerned /\ similarity > ConcernedRedMin) THEN "RED"
  ELSE IF sentiment = concerned \/ similarity >= YellowMin THEN "YELLOW"
  ELSE "GREEN"

\* Mutant: the similarity rule rejects a similarity above 1 instead of
\* treating it as 1.
assignRiskLevelStrictInput(similarity, reviewerSentiment) ==
  LET sentiment == ToLowerCase(OrEmpty(reviewerSentiment)) IN
  IF sentiment = critical /\ similarity >= CriticalRedMin THEN "RED"
  ELSE IF sentiment = critical
          \/ (sentiment = concerned /\ similarity >= ConcernedRedMin) THEN "RED"
  ELSE IF sentiment = concerned
          \/ (similarity >= YellowMin /\ similarity <= 100) THEN "YELLOW"
  ELSE "GREEN"

assignRiskLevel(similarity, reviewerSentiment) ==
  LET sentiment == ToLowerCase(OrEmpty(reviewerSentiment)) IN
  IF sentiment = critical /\ similarity >= CriticalRedMin THEN "RED"
  ELSE IF sentiment = critical
          \/ (sentiment = concerned /\ similarity >= ConcernedRedMin) THEN "RED"
  ELSE IF sentiment = concerned \/ similarity >= YellowMin THEN "YELLOW"
  ELSE "GREEN"

-----------------------------------------------------------------------------
(* MultiAngleRetriever: predictive_audit                                   *)

\* The longest result one angle's query returns in the model (the code asks
\* the store for at most 12 rows per angle).
MaxRows == 2

Neutral == <<"N", "e", "u", "t", "r", "a", "l">>
Concerned == <<"C", "o", "n", "c", "e", "r", "n", "e", "d">>
Critical == <<"C", "r", "i", "t", "i", "c", "a", "l">>

\* A row of match_regulatory_precedents: id, similarity, reviewer_sentiment.
Row(i, s, rs) == [id |-> i, similarity |-> s, reviewer_sentiment |-> rs]

\* The rows a query may return. Chunk 1 appears with two similarities, so the
\* same chunk can come back from two angles with different attributes.
StoreRows ==
  { Row(1, 70, Some(Neutral)), Row(1, 90, Some(Neutral)),
    Row(2, 82, Some(Concerned)) }

\* What one query can resolve to: any sequence of at most MaxRows rows.
ResultSeqs == UNION { [1..n -> StoreRows] : n \in 0..MaxRows }

\* The angles in the order predictive_audit declares and queries them.
Angles == <<"A", "B", "C">>
AngleSet == {"A", "B", "C"}
AnglePos(a) == CHOOSE i \in 1..Len(Angles) : Angles[i] = a

angleLabels ==
  [A |-> "Safety Signals (Similar Drug Classes)",
   B |-> "Reviewer Stickler Points (PK/PD)",
   C |-> "EMA EPAR Safety Warnings"]

\* One findings.push({...}) of the three loops.
MakeFinding(r, a) ==
  [id |-> r.id, angle |-> a, angleLabel |-> angleLabels[a],
   similarity |-> r.similarity, reviewerSentiment |-> r.reviewer_sentiment,
   riskLevel |-> assignRiskLevel(r.similarity, r.reviewer_sentiment)]

\* The loop over one angle's results.
AngleFindings(res, a) == [i \in 1..Len(res[a]) |-> MakeFinding(res[a][i], a)]

\* The three loops: angle A's results, then B's, then C's.
BuildFindings(res) ==
  AngleFindings(res, "A") \o AngleFindings(res, "B") \o AngleFindings(res, "C")

\* findings.filter with the seen set: from position i on, given the ids seen.
RECURSIVE DedupeFrom(_, _, _)
DedupeFrom(fs, i, seen) ==
  IF i > Len(fs) THEN <<>>
  ELSE IF fs[i].id \in seen THEN DedupeFrom(fs, i + 1, seen)
  ELSE <<fs[i]>> \o DedupeFrom(fs, i + 1, seen \cup {fs[i].id})

\* Mutant: highest-similarity-wins (a later occurrence with a strictly higher
\* similarity replaces the earlier one).
DedupeHighestSimilarity(fs) ==
  LET keep(i) ==
        \A j \in 1..Len(fs) :
          (j # i /\ fs[j].id = fs[i].id) =>
            \/ fs[j].similarity < fs[i].similarity
            \/ (fs[j].similarity = fs[i].similarity /\ j > i)
      idx == {i \in 1..Len(fs) : keep(i)}
      RECURSIVE pick(_)
      pick(i) == IF i > Len(fs) THEN <<>>
                 ELSE IF i \in idx THEN <<fs[i]>> \o pick(i + 1)
                 ELSE pick(i + 1)
  IN pick(1)

\* Mutant: identity is (chunk id, angle) instead of the chunk id alone.
DedupePerAngle(fs) ==
  LET RECURSIVE from(_, _)
      from(i, seen) ==
        IF i > Len(fs) THEN <<>>
        ELSE IF <<fs[i].id, fs[i].angle>> \in seen THEN from(i + 1, seen)
        ELSE <<fs[i]>> \o from(i + 1, seen \cup {<<fs[i].id, fs[i].angle>>})
  IN from(1, {})

Dedupe(fs) == DedupeFrom(fs, 1, {})

CountLevel(fs, l) == Cardinality({i \in 1..Len(fs) : fs[i].riskLevel = l})

\* Mutant: the findings that need no attention are left out of the tally.
RiskTallyWithoutGreen(fs) ==
  [red |-> CountLevel(fs, "RED"), yellow |-> CountLevel(fs, "YELLOW"), green |-> 0]

RiskTally(fs) ==
  [red |-> CountLevel(fs, "RED"), yellow |-> CountLevel(fs, "YELLOW"),
   green |-> CountLevel(fs, "GREEN")]

NoResults == [a \in AngleSet |-> <<>>]
NoQueries == [a \in AngleSet |-> "none"]

\* Lines 104-197: everything between the try block and the summarizer call;
\* the request is then waiting for chatCompletion.
BuildAndSummarise(res) ==
  /\ findings' = Dedupe(BuildFindings(res))
  /\ riskSummary' = RiskTally(Dedupe(BuildFindings(res)))
  /\ pc' = "summary"

\* The request up to its first provider call: the guidance context is loaded
\* and getEmbedding is called.
Start ==
  /\ pc = "idle"
  /\ pc' = "embedding"
  /\ embedCall' = "inflight"
  /\ guidanceContextUsed' \in BOOLEAN
  /\ UNCHANGED <<query, angleResults, findings, riskSummary, executiveSummary>>
  /\ UNCHANGED <<riskVars, segVars, ingestVars, matchVars, chatVars, guideVars>>

\* createClient or loadGuidanceContext rejects (neither is inside a try
\* block): the exception leaves predictive_audit and the request fails.
StartRejects ==
  /\ pc = "idle"
  /\ pc' = "rejected"
  /\ UNCHANGED <<embedCall, query, angleResults, findings, riskSummary,
                 executiveSummary, guidanceContextUsed>>
  /\ UNCHANGED <<riskVars, segVars, ingestVars, matchVars, chatVars, guideVars>>

\* getEmbedding resolves: angle A's searchPrecedents is called.
EmbedOk ==
  /\ pc = "embedding"
  /\ embedCall' = "ok"
  /\ query' = [query EXCEPT !["A"] = "inflight"]
  /\ pc' = "searching"
  /\ UNCHANGED <<angleResults, findings, riskSummary, executiveSummary,
                 guidanceContextUsed>>
  /\ UNCHANGED <<riskVars, segVars, ingestVars, matchVars, chatVars, guideVars>>

\* Mutant: the getEmbedding call is not inside the try block, its rejection
\* leaves predictive_audit.
EmbedFailPropagates ==
  /\ pc = "embedding"
  /\ embedCall' = "failed"
  /\ pc' = "rejected"
  /\ UNCHANGED <<query, angleResults, findings, riskSummary, executiveSummary,
                 guidanceContextUsed>>
  /\ UNCHANGED <<riskVars, segVars, ingestVars, matchVars, chatVars, guideVars>>

\* getEmbedding rejects: the catch block is entered, no angle is queried.
EmbedFail ==
  /\ pc = "embedding"
  /\ embedCall' = "failed"
  /\ BuildAndSummarise(angleResults)
  /\ UNCHANGED <<query, angleResults, executiveSummary, guidanceContextUsed>>
  /\ UNCHANGED <<riskVars, segVars, ingestVars, matchVars, chatVars, guideVars>>

\* What follows the await of angle a's searchPrecedents when it resolved with
\* rows res: the next angle's searchPrecedents is called, or, after the last
\* angle, the findings are built.
Resolved(a, status, rows) ==
  LET res == [angleResults EXCEPT ![a] = rows] IN
  /\ angleResults' = res
  /\ IF AnglePos(a) < Len(Angles)
       THEN /\ query' = [query EXCEPT ![a] = status,
                                      ![Angles[AnglePos(a) + 1]] = "inflight"]
            /\ UNCHANGED <<pc, findings, riskSummary>>
       ELSE /\ query' = [query EXCEPT ![a] = status]
            /\ BuildAndSummarise(res)
  /\ UNCHANGED <<embedCall, executiveSummary, guidanceContextUsed>>
  /\ UNCHANGED <<riskVars, segVars, ingestVars, matchVars, chatVars, guideVars>>

\* The rpc of angle a resolves with data (data ?? [] when data is null).
QueryData(a) ==
  /\ pc = "searching"
  /\ query[a] = "inflight"
  /\ \E rows \in ResultSeqs : Resolved(a, "data", rows)

\* The rpc of angle a resolves with an error object: searchPrecedents logs
\* it and returns [].
QueryError(a) ==
  /\ pc = "searching"
  /\ query[a] = "inflight"
  /\ Resolved(a, "error", <<>>)

\* The rpc of angle a rejects: the await inside the try block throws, the
\* remaining assignments are skipped and the catch block is entered.
QueryThrows(a) ==
  /\ pc = "searching"
  /\ query[a] = "inflight"
  /\ query' = [query EXCEPT ![a] = "thrown"]
  /\ BuildAndSummarise(angleResults)
  /\ UNCHANGED <<embedCall, angleResults, executiveSummary, guidanceContextUsed>>
  /\ UNCHANGED <<riskVars, segVars, ingestVars, matchVars, chatVars, guideVars>>

\* chatCompletion resolves with a text that is non-empty and does not
\* contain "No API key".
SummaryText ==
  /\ pc = "summary"
  /\ executiveSummary' = "llm"
  /\ pc' = "done"
  /\ UNCHANGED <<embedCall, query, angleResults, findings, riskSummary,
                 guidanceContextUsed>>
  /\ UNCHANGED <<riskVars, segVars, ingestVars, matchVars, chatVars, guideVars>>

\* chatCompletion resolves with "" or with the "No API key ..." text.
SummaryUnusable ==
  /\ pc = "summary"
  /\ executiveSummary' = "insufficient"
  /\ pc' = "done"
  /\ UNCHANGED <<embedCall, query, angleResults, findings, riskSummary,
                 guidanceContextUsed>>
  /\ UNCHANGED <<riskVars, segVars, ingestVars, matchVars, chatVars, guideVars>>

\* Mutant: a rejection of chatCompletion rejects the request.
SummaryThrowsPropagates ==
  /\ pc = "summary"
  /\ findings' = <<>>
  /\ riskSummary' = [red |-> 0, yellow |-> 0, green |-> 0]
  /\ pc' = "rejected"
  /\ UNCHANGED <<embedCall, query, angleResults, executiveSummary,
                 guidanceContextUsed>>
  /\ UNCHANGED <<riskVars, segVars, ingestVars, matchVars, chatVars, guideVars>>

\* chatCompletion rejects.
SummaryThrows ==
  /\ pc = "summary"
  /\ executiveSummary' = "could-not-generate"
  /\ pc' = "done"
  /\ UNCHANGED <<embedCall, query, angleResults, findings, riskSummary,
                 guidanceContextUsed>>
  /\ UNCHANGED <<riskVars, segVars, ingestVars, matchVars, chatVars, guideVars>>

AuditIdle ==
  /\ pc = "idle"
  /\ embedCall = "none"
  /\ query = NoQueries
  /\ angleResults = NoResults
  /\ findings = <<>>
  /\ riskSummary = [red |-> 0, yellow |-> 0, green |-> 0]
  /\ executiveSummary = "insufficient"
  /\ guidanceContextUsed = FALSE

RiskIdle == simIn = 0 /\ sentIn = Null /\ level = "none"

SegIdle ==
  /\ fullText = <<>>
  /\ options = [chunkSize |-> 0, chunkOverlap |-> 0, minChunkLength |-> 0]
  /\ chunks = <<>>
  /\ segDone = FALSE

IngestIdle ==
  /\ ipc = "idle"
  /\ pdfFiles = <<>>
  /\ fileNo = 0
  /\ extraction = <<>>
  /\ result = <<>>
  /\ response = <<>>
  /\ insertRows = <<>>
  /\ regulatory_precedents = <<>>
  /\ console = <<>>

ChatIdle ==
  /\ cpc = "idle"
  /\ body = [parses |-> FALSE, isArray |-> FALSE, roles |-> <<>>]
  /\ provider = "none"
  /\ httpStatus = 0
  /\ streamLog = <<>>
  /\ received = <<>>
  /\ thrown = Null

GuideIdle ==
  /\ gpc = "idle"
  /\ docs = [exists |-> FALSE, files |-> <<>>]
  /\ maxChars = 0
  /\ docNo = 0
  /\ opened = <<>>
  /\ guidanceChunks = <<>>
  /\ totalChars = 0
  /\ guidanceContext = <<>>

MatchIdle ==
  /\ precedents = {}
  /\ matchArgs = [match_threshold |-> 0, match_count |-> 0,
                  filter_drug_class |-> Null, filter_review_type |-> Null,
                  filter_jurisdiction |-> Null]
  /\ matched = <<>>
  /\ matchDone = FALSE

Init == AuditIdle /\ RiskIdle /\ SegIdle /\ IngestIdle /\ MatchIdle /\ ChatIdle /\ GuideIdle

Next ==
  \/ Start
  \/ StartRejects
  \/ EmbedOk
  \/ EmbedFail
  \/ \E a \in AngleSet : QueryData(a)
  \/ \E a \in AngleSet : QueryError(a)
  \/ \E a \in AngleSet : QueryThrows(a)
  \/ SummaryText
  \/ SummaryUnusable
  \/ SummaryThrows

Spec == Init /\ [][Next]_vars

-----------------------------------------------------------------------------
(* Claims about predictive_audit, checked under Spec                       *)

\* The request has left the try block: its findings are built.
Built == pc \in {"summary", "done"}

\* The angles whose results contain chunk id i.
AnglesWith(i) ==
  {a \in AngleSet : \E k \in 1..Len(angleResults[a]) : angleResults[a][k].id = i}

\* The earliest-declared angle that returned chunk id i.
EarliestAngle(i) ==
  CHOOSE a \in AnglesWith(i) : \A b \in AnglesWith(i) : AnglePos(a) <= AnglePos(b)

\* The first (best) rank of chunk id i in angle a's results.
FirstRank(a, i) ==
  CHOOSE k \in 1..Len(angleResults[a]) :
    /\ angleResults[a][k].id = i
    /\ \A j \in 1..(k - 1) : angleResults[a][j].id # i

\* The ids of all rows the angles returned.
ReturnedIds ==
  UNION { {angleResults[a][k].id : k \in 1..Len(angleResults[a])} : a \in AngleSet }

\* C1: the merged finding of a chunk carries the label and the row of the
\* earliest-declared angle that returned it (at its first rank there), and
\* the findings are in concatenation order: by angle, then by rank.
C1_FirstOccurrenceWins ==
  Built =>
    /\ \A n \in 1..Len(findings) :
         LET f == findings[n] IN
         /\ f.id \in ReturnedIds
         /\ f.angle = EarliestAngle(f.id)
         /\ f.angleLabel = angleLabels[EarliestAngle(f.id)]
         /\ f.similarity =
              angleResults[f.angle][FirstRank(f.angle, f.id)].similarity
    /\ \A m, n \in 1..Len(findings) :
         m < n =>
           LET f == findings[m]
               g == findings[n] IN
           \/ AnglePos(f.angle) < AnglePos(g.angle)
           \/ /\ f.angle = g.angle
              /\ FirstRank(f.angle, f.id) < FirstRank(g.angle, g.id)

\* Chunk 1 is returned by angle A at rank 2 with similarity 0.70 and by angle
\* B at rank 1 with similarity 0.90; the merged finding is angle A's.
C1_Witness ==
  /\ pc = "done"
  /\ Len(angleResults["A"]) = 2
  /\ angleResults["A"][2] = Row(1, 70, Some(Neutral))
  /\ angleResults["A"][1].id = 2
  /\ Len(angleResults["B"]) >= 1
  /\ angleResults["B"][1] = Row(1, 90, Some(Neutral))
  /\ \E n \in 1..Len(findings) :
       /\ findings[n].id = 1
       /\ findings[n].angle = "A"
       /\ findings[n].similarity = 70

\* C2: the findings hold no chunk id twice, and as many entries as there are
\* distinct chunk ids in the angles' results.
C2_DistinctIds ==
  Built =>
    /\ \A m, n \in 1..Len(findings) : findings[m].id = findings[n].id => m = n
    /\ Len(findings) = Cardinality(ReturnedIds)

\* Five rows over two chunk ids, each id returned by more than one angle.
C2_Witness ==
  /\ pc = "done"
  /\ Len(angleResults["A"]) + Len(angleResults["B"]) + Len(angleResults["C"]) >= 5
  /\ Cardinality(ReturnedIds) = 2
  /\ Len(findings) = 2

\* C3: when the embedding call has failed, no angle's query was issued, the
\* request has not failed, and its result has no findings and a risk summary
\* of 0 / 0 / 0.
C3_EmbeddingFailureDegrades ==
  embedCall = "failed" =>
    /\ \A a \in AngleSet : query[a] = "none"
    /\ Built
    /\ findings = <<>>
    /\ riskSummary = [red |-> 0, yellow |-> 0, green |-> 0]

\* The request returned after its embedding call failed.
C3_Witness == embedCall = "failed" /\ pc = "done"

\* C4: once the findings are built after a successful embedding, an angle
\* whose query failed (an error result or a rejection) contributes no
\* finding, every other angle's query has been issued, and every row another
\* angle returned is represented in the findings.
C4_AngleFailureIsolated ==
  (Built /\ embedCall = "ok") =>
    \A a \in AngleSet :
      query[a] \in {"error", "thrown"} =>
        /\ \A n \in 1..Len(findings) : findings[n].angle # a
        /\ \A b \in AngleSet \ {a} :
             /\ query[b] # "none"
             /\ \A k \in 1..Len(angleResults[b]) :
                  \E n \in 1..Len(findings) :
                    findings[n].id = angleResults[b][k].id

\* C5: the angle queries are concurrent: no angle's query completes before
\* every angle's query has been issued.
C5_AnglesConcurrent ==
  [][\A a \in AngleSet :
       (query[a] = "inflight" /\ query'[a] # "inflight") =>
         \A b \in AngleSet : query[b] # "none"]_vars

-----------------------------------------------------------------------------
(* SpecRisk: one call of assignRiskLevel on any input                      *)

\* How far outside [0, 1] the similarities of the model reach, in hundredths.
SimSlack == 20

SimValues == (0 - SimSlack)..(100 + SimSlack)

Positive == <<"P", "o", "s", "i", "t", "i", "v", "e">>
Unspecified == <<"U", "n", "s", "p", "e", "c", "i", "f", "i", "e", "d">>

\* The sentiment labels of the schema, and no label (null or undefined).
RecognisedSentiments ==
  {Some(Positive), Some(Concerned), Some(Critical), Some(Neutral),
   Some(Unspecified), Null}

\* Labels outside the schema: other letter case, padding, other words, "".
OtherSentiments ==
  {Some(<<"C", "R", "I", "T", "I", "C", "A", "L">>), Some(critical),
   Some(concerned), Some(<<"c", "O", "N", "C", "E", "R", "N", "E", "D">>),
   Some(Critical \o <<" ">>), Some(<<" ">> \o Concerned),
   Some(<<"A", "n", "g", "r", "y">>), Some(<<"N", "/", "A">>), Some(<<>>)}

Classify ==
  /\ level = "none"
  /\ level' = assignRiskLevel(simIn, sentIn)
  /\ UNCHANGED <<simIn, sentIn>>
  /\ UNCHANGED <<auditVars, segVars, ingestVars, matchVars, chatVars, guideVars>>

InitRisk ==
  /\ AuditIdle
  /\ ChatIdle
  /\ GuideIdle
  /\ SegIdle
  /\ IngestIdle
  /\ MatchIdle
  /\ simIn \in SimValues
  /\ sentIn \in RecognisedSentiments \cup OtherSentiments
  /\ level = "none"

NextRisk == Classify

SpecRisk == InitRisk /\ [][NextRisk]_vars

\* The ordered rule list, first match wins, on the schema's labels.
RuleList(sim, s) ==
  IF s = Some(Critical) /\ sim >= 75 THEN "RED"
  ELSE IF s = Some(Critical) THEN "RED"
  ELSE IF s = Some(Concerned) /\ sim >= 80 THEN "RED"
  ELSE IF s = Some(Concerned) THEN "YELLOW"
  ELSE IF sim >= 85 THEN "YELLOW"
  ELSE "GREEN"

\* C6: for a similarity in [0, 1] and a sentiment of the schema (or none),
\* assignRiskLevel returns what the ordered rule list returns, and the six
\* examples come out as stated.
C6_MatchesRuleList ==
  (level # "none" /\ simIn \in 0..100 /\ sentIn \in RecognisedSentiments) =>
    /\ level = RuleList(simIn, sentIn)
    /\ (sentIn = Some(Critical)) => level = "RED"
    /\ (sentIn = Some(Concerned)) =>
         level = (IF simIn >= 80 THEN "RED" ELSE "YELLOW")
    /\ (sentIn \notin {Some(Critical), Some(Concerned)}) =>
         level = (IF simIn >= 85 THEN "YELLOW" ELSE "GREEN")
    /\ (simIn = 90 /\ sentIn = Some(Critical)) => level = "RED"
    /\ (simIn = 50 /\ sentIn = Some(Critical)) => level = "RED"
    /\ (simIn = 82 /\ sentIn = Some(Concerned)) => level = "RED"
    /\ (simIn = 60 /\ sentIn = Some(Concerned)) => level = "YELLOW"
    /\ (simIn = 90 /\ sentIn = Some(Neutral)) => level = "YELLOW"
    /\ (simIn = 50 /\ sentIn = Some(Neutral)) => level = "GREEN"

\* Concerned exactly at the 0.80 threshold has been classified RED.
C6_Witness == simIn = 80 /\ sentIn = Some(Concerned) /\ level = "RED"

Clamp(sim) == IF sim < 0 THEN 0 ELSE IF sim > 100 THEN 100 ELSE sim

\* The schema label that s matches when letter case is ignored, and
\* Unspecified when it matches none.
IgnoringCase(s) ==
  IF s.null THEN Null
  ELSE IF \E r \in RecognisedSentiments \ {Null} :
            ToLowerCase(r.str) = ToLowerCase(s.str)
    THEN CHOOSE r \in RecognisedSentiments \ {Null} :
           ToLowerCase(r.str) = ToLowerCase(s.str)
    ELSE Some(Unspecified)

\* C7 as stated: the call returns a level; a similarity outside [0, 1] is
\* classified as its clamped value, and a label that is not one of the
\* schema's labels is classified as Unspecified at the same similarity.
C7_MalformedAsStated ==
  level # "none" =>
    /\ level \in {"RED", "YELLOW", "GREEN"}
    /\ level = RuleList(Clamp(simIn),
                        IF sentIn \in RecognisedSentiments THEN sentIn
                        ELSE Some(Unspecified))

\* C7, amended: the call returns a level; a similarity outside [0, 1] is
\* classified as its clamped value, and a label that matches none of the
\* schema's labels even when letter case is ignored is classified as
\* Unspecified at the same similarity (a label that differs from Critical or
\* Concerned in letter case only is classified as that label).
C7_MalformedIgnoringCase ==
  level # "none" =>
    /\ level \in {"RED", "YELLOW", "GREEN"}
    /\ level = RuleList(Clamp(simIn), IgnoringCase(sentIn))

\* A similarity above 1 with an unknown label has been classified the way
\* (1.0, Unspecified) is: YELLOW.
C7_Witness ==
  /\ simIn > 100
  /\ sentIn = Some(<<"A", "n", "g", "r", "y">>)
  /\ level = "YELLOW"

-----------------------------------------------------------------------------
(* DocumentSegmenter: chunkText and processExtractedText                   *)

NL == "\n"
FF == "\f"

\* The whitespace of String.prototype.trim and of \s, within the model's
\* alphabet.
IsWs(c) == c \in {" ", NL, FF}

\* String.prototype.slice(start).
Slice(s, start) == SubSeq(s, start + 1, Len(s))

\* String.prototype.trim.
Trim(s) ==
  IF \A i \in 1..Len(s) : IsWs(s[i]) THEN <<>>
  ELSE SubSeq(s,
              CHOOSE i \in 1..Len(s) :
                ~IsWs(s[i]) /\ \A j \in 1..(i - 1) : IsWs(s[j]),
              CHOOSE i \in 1..Len(s) :
                ~IsWs(s[i]) /\ \A j \in (i + 1)..Len(s) : IsWs(s[j]))

\* Mutant: the text is one page.
SplitPagesNone(s) == <<s>>

\* fullText.split(/\f/).
RECURSIVE SplitPages(_)
SplitPages(s) ==
  LET ffs == {i \in 1..Len(s) : s[i] = FF} IN
  IF ffs = {} THEN <<s>>
  ELSE LET i == CHOOSE k \in ffs : \A j \in ffs : k <= j IN
       <<SubSeq(s, 1, i - 1)>> \o SplitPages(Slice(s, i))

\* The end of the leftmost match of /\n\s*\n+/ that starts at i: s[i] is a
\* line feed, \s* runs over the whitespace after it and gives back until \n+
\* can match, which is at the last line feed of that whitespace run. 0 when
\* there is no match at i.
MatchEnd(s, i) ==
  IF s[i] # NL THEN 0
  ELSE LET nls == {k \in (i + 1)..Len(s) :
                     s[k] = NL /\ \A j \in i..k : IsWs(s[j])} IN
       IF nls = {} THEN 0 ELSE CHOOSE k \in nls : \A j \in nls : k >= j

\* text.split(/\n\s*\n+/).
RECURSIVE SplitParagraphs(_)
SplitParagraphs(s) ==
  LET starts == {i \in 1..Len(s) : MatchEnd(s, i) > 0} IN
  IF starts = {} THEN <<s>>
  ELSE LET i == CHOOSE k \in starts : \A j \in starts : k <= j IN
       <<SubSeq(s, 1, i - 1)>> \o SplitParagraphs(Slice(s, MatchEnd(s, i)))

\* Mutant: the paragraph filter measures the untrimmed paragraph.
KeepParagraphUntrimmed(p, minChunkLength) == Len(p) >= minChunkLength

\* The filter of chunkText: p.trim().length >= minChunkLength.
KeepParagraph(p, minChunkLength) == Len(Trim(p)) >= minChunkLength

\* Mutant: the new buffer is seeded with the whole emitted chunk.
OverlapSeedWhole(currentChunk, chunkOverlap) == currentChunk

\* Mutant: nothing of the emitted chunk is carried over.
OverlapSeedNone(currentChunk, chunkOverlap) == <<>>

\* currentChunk.slice(Math.max(0, currentChunk.length - chunkOverlap)).
OverlapSeed(currentChunk, chunkOverlap) ==
  Slice(currentChunk,
        IF Len(currentChunk) - chunkOverlap > 0
          THEN Len(currentChunk) - chunkOverlap ELSE 0)

RawChunk(content, pageNumber, chunkIndex) ==
  [content |-> content, pageNumber |-> pageNumber, chunkIndex |-> chunkIndex]

\* Mutant: a paragraph longer than chunkSize is discarded.
ParagraphsWithinChunkSize(text, opts) ==
  LET Keep(p) == KeepParagraph(p, opts.minChunkLength) /\ Len(p) <= opts.chunkSize IN
  SelectSeq(SplitParagraphs(text), Keep)

\* The paragraphs chunkText accumulates.
Paragraphs(text, opts) ==
  LET Keep(p) == KeepParagraph(p, opts.minChunkLength) IN
  SelectSeq(SplitParagraphs(text), Keep)

\* The loop of chunkText from paragraph i on, and the final push.
RECURSIVE ChunkLoop(_, _, _, _, _, _, _)
ChunkLoop(paragraphs, i, currentChunk, chunkIndex, out, pageNumber, opts) ==
  IF i > Len(paragraphs)
    THEN IF Trim(currentChunk) # <<>>
           THEN Append(out, RawChunk(Trim(currentChunk), pageNumber, chunkIndex))
           ELSE out
    ELSE LET para == paragraphs[i] IN
         IF Len(currentChunk) + Len(para) > opts.chunkSize /\ Len(currentChunk) > 0
           THEN ChunkLoop(paragraphs, i + 1,
                          OverlapSeed(currentChunk, opts.chunkOverlap)
                            \o <<NL, NL>> \o para,
                          chunkIndex + 1,
                          Append(out, RawChunk(Trim(currentChunk), pageNumber,
                                               chunkIndex)),
                          pageNumber, opts)
           ELSE ChunkLoop(paragraphs, i + 1,
                          currentChunk
                            \o (IF currentChunk # <<>> THEN <<NL, NL>> ELSE <<>>)
                            \o para,
                          chunkIndex, out, pageNumber, opts)

chunkText(text, pageNumber, opts) ==
  ChunkLoop(Paragraphs(text, opts), 1, <<>>, 0, <<>>, pageNumber, opts)

\* The pages processExtractedText walks: the non-blank pieces between form
\* feeds, or the whole text when there is none.
EffectivePages(text) ==
  LET NonBlank(t) == Trim(t) # <<>>
      pageTexts == SelectSeq(SplitPages(text), NonBlank) IN
  IF Len(pageTexts) > 0 THEN pageTexts ELSE <<text>>

-----------------------------------------------------------------------------
(* Annotator: regular expressions, detectTables, detectRTFKeywords         *)

LowerLetters ==
  {"a", "b", "c", "d", "e", "f", "g", "h", "i", "j", "k", "l", "m",
   "n", "o", "p", "q", "r", "s", "t", "u", "v", "w", "x", "y", "z"}
UpperLetters ==
  {"A", "B", "C", "D", "E", "F", "G", "H", "I", "J", "K", "L", "M",
   "N", "O", "P", "Q", "R", "S", "T", "U", "V", "W", "X", "Y", "Z"}
Letters == LowerLetters \cup UpperLetters
Digits == {"0", "1", "2", "3", "4", "5", "6", "7", "8", "9"}

\* \w, \s and the en dash of the range pattern.
WordChars == Letters \cup Digits \cup {"_"}
WsChars == {" ", NL, FF}
EnDash == "u2013"

\* A character of a pattern under the i flag: it matches both letter cases.
AnyCase(c) == {d \in Letters \cup {c} : LowerChar(d) = LowerChar(c)}

\* Pattern nodes: a character class, \b, a sequence, x?, x*, x|y.
Chr(set) == [op |-> "chr", set |-> set, sub |-> <<>>]
Bnd == [op |-> "bnd", set |-> {}, sub |-> <<>>]
Cat(ns) == [op |-> "cat", set |-> {}, sub |-> ns]
Opt(n) == [op |-> "opt", set |-> {}, sub |-> <<n>>]
Star(n) == [op |-> "star", set |-> {}, sub |-> <<n>>]
Alt(ns) == [op |-> "alt", set |-> {}, sub |-> ns]
\* Mutant: x+ also matches no x.
PlusOrNone(n) == Star(n)

Plus(n) == Cat(<<n, Star(n)>>)
Lit(str) == [k \in 1..Len(str) |-> Chr(AnyCase(str[k]))]

IsWordAt(s, i) == i >= 1 /\ i <= Len(s) /\ s[i] \in WordChars

\* The positions at which a match of node n that starts at position i of s
\* can end (the position after its last character), in the order in which
\* a backtracking matcher tries them: greedy quantifiers take the longest
\* repetition first, alternatives are tried left to right.
RECURSIVE Ends(_, _, _)
RECURSIVE EndsFrom(_, _, _)
RECURSIVE CatEnds(_, _, _)
RECURSIVE AltEnds(_, _, _)
RECURSIVE StarEnds(_, _, _)

\* The ends of n from each of the start positions, in order.
EndsFrom(n, s, starts) ==
  IF starts = <<>> THEN <<>>
  ELSE Ends(n, s, Head(starts)) \o EndsFrom(n, s, Tail(starts))

CatEnds(ns, s, starts) ==
  IF ns = <<>> \/ starts = <<>> THEN starts
  ELSE CatEnds(Tail(ns), s, EndsFrom(Head(ns), s, starts))

AltEnds(ns, s, i) ==
  IF ns = <<>> THEN <<>> ELSE Ends(Head(ns), s, i) \o AltEnds(Tail(ns), s, i)

StarEnds(n, s, i) ==
  LET once == SelectSeq(Ends(n, s, i), LAMBDA e : e > i) IN
  EndsFrom(Star(n), s, once) \o <<i>>

Ends(n, s, i) ==
  CASE n.op = "chr" -> IF i <= Len(s) /\ s[i] \in n.set THEN <<i + 1>> ELSE <<>>
    [] n.op = "bnd" -> IF IsWordAt(s, i - 1) # IsWordAt(s, i) THEN <<i>> ELSE <<>>
    [] n.op = "cat" -> CatEnds(n.sub, s, <<i>>)
    [] n.op = "opt" -> Ends(n.sub[1], s, i) \o <<i>>
    [] n.op = "star" -> StarEnds(n.sub[1], s, i)
    [] n.op = "alt" -> AltEnds(n.sub, s, i)

\* String.prototype.match with a global pattern: the matched texts, left to
\* right, each search resuming where the previous match ended.
RECURSIVE MatchAll(_, _, _)
MatchAll(pattern, s, from) ==
  LET starts == {i \in from..Len(s) : Ends(pattern, s, i) # <<>>} IN
  IF starts = {} THEN <<>>
  ELSE LET i == CHOOSE k \in starts : \A j \in starts : k <= j
           e == Head(Ends(pattern, s, i)) IN
       <<SubSeq(s, i, e - 1)>>
         \o MatchAll(pattern, s, IF e > i THEN e ELSE i + 1)

Table == Lit(<<"T", "a", "b", "l", "e">>)
Digit == Chr(Digits)
Ws == Chr(WsChars)
DotDigits == Cat(<<Chr({"."}), Plus(Digit)>>)

TABLE_PATTERNS ==
  << \* /\bTable\s+\d+(?:\.\d+)?[a-z]?\b/gi
     Cat(<<Bnd>> \o Table
           \o <<Plus(Ws), Plus(Digit), Opt(DotDigits), Opt(Chr(Letters)), Bnd>>),
     \* /\bTable\s+[IVXLCDM]+\b/gi
     Cat(<<Bnd>> \o Table
           \o <<Plus(Ws),
                Plus(Chr(UNION {AnyCase(c) :
                                  c \in {"I", "V", "X", "L", "C", "D", "M"}})),
                Bnd>>),
     \* /\bTable\s+[A-Z](?:-\d+)?\b/gi
     Cat(<<Bnd>> \o Table
           \o <<Plus(Ws), Chr(Letters),
                Opt(Cat(<<Chr({"-"}), Plus(Digit)>>)), Bnd>>),
     \* /\bTable\s+S\d+(?:\.\d+)?\b/gi
     Cat(<<Bnd>> \o Table
           \o <<Plus(Ws), Chr(AnyCase("S")), Plus(Digit), Opt(DotDigits), Bnd>>),
     \* /\bTables\s+\d+(?:\s*[-–]\s*\d+)?\b/gi
     Cat(<<Bnd>> \o Table
           \o <<Chr(AnyCase("s")), Plus(Ws), Plus(Digit),
                Opt(Cat(<<Star(Ws), Chr({"-", EnDash}), Star(Ws), Plus(Digit)>>)),
                Bnd>>),
     \* /\bTable\.\s*\d+\b/gi
     Cat(<<Bnd>> \o Table \o <<Chr({"."}), Star(Ws), Plus(Digit), Bnd>>),
     \* /\b(?:Summary|Safety|Efficacy)\s+Table\b/gi
     Cat(<<Bnd,
           Alt(<<Cat(Lit(<<"S", "u", "m", "m", "a", "r", "y">>)),
                 Cat(Lit(<<"S", "a", "f", "e", "t", "y">>)),
                 Cat(Lit(<<"E", "f", "f", "i", "c", "a", "c", "y">>))>>),
           Plus(Ws)>> \o Table \o <<Bnd>>) >>

\* The matches of every pattern, pattern after pattern.
RECURSIVE AllMatches(_, _)
AllMatches(text, p) ==
  IF p > Len(TABLE_PATTERNS) THEN <<>>
  ELSE MatchAll(TABLE_PATTERNS[p], text, 1) \o AllMatches(text, p + 1)

\* Mutant: the reference is pushed in its normalized form.
PushReferenceNormalized(references, seen, m) ==
  LET normalized == ToLowerCase(Trim(m)) IN
  IF normalized \in seen THEN references ELSE Append(references, normalized)

\* if (!seen.has(normalized)) { seen.add(normalized); references.push(m.trim()) }
PushReference(references, seen, m) ==
  LET normalized == ToLowerCase(Trim(m)) IN
  IF normalized \in seen THEN references ELSE Append(references, Trim(m))

\* The two loops of detectTables over the matches, from match k on.
RECURSIVE ReferencesFrom(_, _, _, _)
ReferencesFrom(matches, k, references, seen) ==
  IF k > Len(matches) THEN references
  ELSE ReferencesFrom(matches, k + 1,
                      PushReference(references, seen, matches[k]),
                      seen \cup {ToLowerCase(Trim(matches[k]))})

\* Mutant: hasTable says whether the text mentions the word "table" at all.
HasTableAnyMention(text, references) ==
  \E i \in 1..Len(text) : Ends(Cat(Table), text, i) # <<>>

\* hasTable: references.length > 0
HasTable(text, references) == Len(references) > 0

detectTables(text) ==
  LET references == ReferencesFrom(AllMatches(text, 1), 1, <<>>, {}) IN
  [hasTable |-> HasTable(text, references), references |-> references]

RTF_KEYWORDS ==
  <<
    <<"r", "e", "f", "u", "s", "a", "l", " ", "t", "o", " ", "f", "i", "l", "e">>,
    <<"r", "e", "f", "u", "s", "e", " ", "t", "o", " ", "f", "i", "l", "e">>,
    <<"r", "e", "f", "u", "s", "e", "d", " ", "f", "o", "r", " ", "f", "i", "l", "i", "n", "g">>,
    <<"r", "e", "f", "u", "s", "e", "d", " ", "t", "o", " ", "f", "i", "l", "e">>,
    <<"r", "e", "f", "u", "s", "e", "-", "t", "o", "-", "f", "i", "l", "e">>,
    <<"r", "e", "f", "u", "s", "a", "l", "-", "t", "o", "-", "f", "i", "l", "e">>,
    <<"r", "t", "f", " ", "l", "e", "t", "t", "e", "r">>,
    <<"r", "t", "f", " ", "a", "c", "t", "i", "o", "n">>,
    <<"r", "t", "f", " ", "d", "e", "c", "i", "s", "i", "o", "n">>,
    <<"a", "d", "m", "i", "n", "i", "s", "t", "r", "a", "t", "i", "v", "e", " ", "i", "n", "c", "o", "m", "p", "l", "e", "t", "e", "n", "e", "s", "s">>,
    <<"a", "d", "m", "i", "n", "i", "s", "t", "r", "a", "t", "i", "v", "e", "l", "y", " ", "i", "n", "c", "o", "m", "p", "l", "e", "t", "e">>,
    <<"c", "l", "e", "a", "r", " ", "o", "m", "i", "s", "s", "i", "o", "n">>,
    <<"o", "m", "i", "s", "s", "i", "o", "n", " ", "o", "f", " ", "r", "e", "q", "u", "i", "r", "e", "d">>,
    <<"m", "i", "s", "s", "i", "n", "g", " ", "r", "e", "q", "u", "i", "r", "e", "d">>,
    <<"i", "n", "c", "o", "m", "p", "l", "e", "t", "e", " ", "a", "p", "p", "l", "i", "c", "a", "t", "i", "o", "n">>,
    <<"i", "n", "c", "o", "m", "p", "l", "e", "t", "e", " ", "s", "u", "b", "m", "i", "s", "s", "i", "o", "n">>,
    <<"s", "c", "i", "e", "n", "t", "i", "f", "i", "c", " ", "i", "n", "c", "o", "m", "p", "l", "e", "t", "e", "n", "e", "s", "s">>,
    <<"s", "c", "i", "e", "n", "t", "i", "f", "i", "c", "a", "l", "l", "y", " ", "i", "n", "c", "o", "m", "p", "l", "e", "t", "e">>,
    <<"i", "n", "a", "d", "e", "q", "u", "a", "t", "e", " ", "c", "l", "i", "n", "i", "c", "a", "l", " ", "i", "n", "f", "o", "r", "m", "a", "t", "i", "o", "n">>,
    <<"i", "n", "a", "d", "e", "q", "u", "a", "t", "e", " ", "c", "l", "i", "n", "i", "c", "a", "l", " ", "d", "a", "t", "a">>,
    <<"i", "n", "a", "d", "e", "q", "u", "a", "t", "e", " ", "q", "u", "a", "l", "i", "t", "y", " ", "d", "a", "t", "a">>,
    <<"i", "n", "a", "d", "e", "q", "u", "a", "t", "e", " ", "m", "a", "n", "u", "f", "a", "c", "t", "u", "r", "i", "n", "g">>,
    <<"i", "n", "a", "d", "e", "q", "u", "a", "t", "e", " ", "m", "a", "n", "u", "f", "a", "c", "t", "u", "r", "i", "n", "g", " ", "i", "n", "f", "o", "r", "m", "a", "t", "i", "o", "n">>,
    <<"m", "i", "s", "s", "i", "n", "g", " ", "p", "h", "a", "r", "m", "a", "c", "o", "l", "o", "g", "y">>,
    <<"m", "i", "s", "s", "i", "n", "g", " ", "t", "o", "x", "i", "c", "o", "l", "o", "g", "y">>,
    <<"i", "n", "s", "u", "f", "f", "i", "c", "i", "e", "n", "t", " ", "s", "t", "a", "t", "i", "s", "t", "i", "c", "a", "l">>,
    <<"p", "o", "s", "t", "-", "h", "o", "c", " ", "a", "n", "a", "l", "y", "s">>,
    <<"p", "o", "s", "t", " ", "h", "o", "c", " ", "a", "n", "a", "l", "y", "s">>,
    <<"i", "n", "c", "o", "m", "p", "l", "e", "t", "e", " ", "a", "n", "a", "l", "y", "s", "i", "s">>,
    <<"i", "n", "c", "o", "m", "p", "l", "e", "t", "e", " ", "a", "n", "a", "l", "y", "s", "i", "s", " ", "o", "f", " ", "s", "t", "u", "d", "i", "e", "s">>,
    <<"i", "n", "a", "d", "e", "q", "u", "a", "t", "e", " ", "f", "a", "c", "i", "l", "i", "t", "y", " ", "i", "n", "f", "o", "r", "m", "a", "t", "i", "o", "n">>,
    <<"2", "1", " ", "c", "f", "r", " ", "3", "1", "4", ".", "1", "0", "1">>,
    <<"2", "1", " ", "c", "f", "r", " ", "6", "0", "1", ".", "2">>,
    <<"3", "1", "4", ".", "1", "0", "1", "(", "d", ")">>,
    <<"6", "0", "1", ".", "2">>,
    <<"s", "e", "c", "t", "i", "o", "n", " ", "5", "0", "5", "(", "b", ")">>,
    <<"s", "e", "c", "t", "i", "o", "n", " ", "3", "5", "1">>,
    <<"n", "o", "t", " ", "f", "i", "l", "e">>,
    <<"r", "e", "f", "u", "s", "e", " ", "t", "o", " ", "a", "c", "c", "e", "p", "t">>,
    <<"r", "e", "f", "u", "s", "a", "l", " ", "t", "o", " ", "a", "c", "c", "e", "p", "t">>,
    <<"i", "n", "c", "o", "m", "p", "l", "e", "t", "e", " ", "u", "p", "o", "n", " ", "s", "u", "b", "m", "i", "s", "s", "i", "o", "n">>,
    <<"d", "e", "f", "i", "c", "i", "e", "n", "c", "i", "e", "s", " ", "p", "r", "e", "c", "l", "u", "d", "e", " ", "r", "e", "v", "i", "e", "w">>,
    <<"c", "a", "n", "n", "o", "t", " ", "c", "o", "m", "m", "e", "n", "c", "e", " ", "r", "e", "v", "i", "e", "w">>,
    <<"c", "a", "n", "n", "o", "t", " ", "b", "e", "g", "i", "n", " ", "r", "e", "v", "i", "e", "w">>
  >>

\* String.prototype.includes
Includes(s, t) ==
  \E i \in 1..(Len(s) - Len(t) + 1) : SubSeq(s, i, i + Len(t) - 1) = t

\* [...new Set(found)]: the first occurrence of each element, in order.
RECURSIVE Unique(_)
Unique(found) ==
  IF found = <<>> THEN <<>>
  ELSE LET init == Unique(SubSeq(found, 1, Len(found) - 1))
           last == found[Len(found)] IN
       IF \E k \in 1..Len(init) : init[k] = last THEN init
       ELSE Append(init, last)

\* Mutant: the keywords are looked for in the text as written.
LowerAsWritten(text) == text

\* const lower = text.toLowerCase()
Lower(text) == ToLowerCase(text)

detectRTFKeywords(text) ==
  LET lower == Lower(text)
      found == SelectSeq(RTF_KEYWORDS, LAMBDA kw : Includes(lower, kw)) IN
  Unique(found)

\* The chunk processExtractedText pushes for a raw chunk.
ProcessedChunk(raw, chunkIndex) ==
  LET tables == detectTables(raw.content) IN
  [content |-> raw.content, pageNumber |-> raw.pageNumber,
   chunkIndex |-> chunkIndex,
   containsTable |-> tables.hasTable,
   rtfKeywordsDetected |-> detectRTFKeywords(raw.content),
   tableReferences |-> tables.references]

\* Mutant: the chunk keeps the index chunkText gave it within its page.
IndexChunkPerPage(raw, chunkGlobalIndex) == raw

\* { ...raw, chunkIndex: chunkGlobalIndex++ }.
IndexChunk(raw, chunkGlobalIndex) == [raw EXCEPT !.chunkIndex = chunkGlobalIndex]

\* The loop of processExtractedText over the pages, from page p + 1 on.
RECURSIVE PageLoop(_, _, _, _)
PageLoop(effectivePages, p, allChunks, opts) ==
  IF p >= Len(effectivePages) THEN allChunks
  ELSE LET rawChunks == chunkText(effectivePages[p + 1], p + 1, opts)
           indexed == [k \in 1..Len(rawChunks) |->
                         ProcessedChunk(rawChunks[k],
                           IndexChunk(rawChunks[k],
                                      Len(allChunks) + k - 1).chunkIndex)] IN
       PageLoop(effectivePages, p + 1, allChunks \o indexed, opts)

\* result.chunks of processExtractedText.
processExtractedText(text, opts) == PageLoop(EffectivePages(text), 0, <<>>, opts)

-----------------------------------------------------------------------------
(* SpecSeg: one call of processExtractedText on any text                   *)

\* The number of pieces a document text of the model is made of.
MaxPieces == 5

\* The pieces: a letter, two letters, a space, a line feed, a blank-line
\* boundary, a form feed. Every string over the four characters is a
\* concatenation of pieces.
Pieces == {<<"x">>, <<"x", "x">>, <<" ">>, <<NL>>, <<NL, NL>>, <<FF>>}

RECURSIVE Flatten(_)
Flatten(ps) == IF ps = <<>> THEN <<>> ELSE Head(ps) \o Flatten(Tail(ps))

Texts == {Flatten(ps) : ps \in UNION {[1..n -> Pieces] : n \in 0..MaxPieces}}

\* The options of the model: chunkSize, chunkOverlap, minChunkLength on the
\* scale of its texts.
OptionSets ==
  {[chunkSize |-> 3, chunkOverlap |-> 1, minChunkLength |-> 1],
   [chunkSize |-> 3, chunkOverlap |-> 0, minChunkLength |-> 2],
   [chunkSize |-> 4, chunkOverlap |-> 2, minChunkLength |-> 2]}

Segment ==
  /\ ~segDone
  /\ chunks' = processExtractedText(fullText, options)
  /\ segDone' = TRUE
  /\ UNCHANGED <<fullText, options>>
  /\ UNCHANGED <<auditVars, riskVars, ingestVars, matchVars, chatVars, guideVars>>

InitSeg ==
  /\ AuditIdle
  /\ ChatIdle
  /\ GuideIdle
  /\ RiskIdle
  /\ IngestIdle
  /\ MatchIdle
  /\ fullText \in Texts
  /\ options \in OptionSets
  /\ chunks = <<>>
  /\ segDone = FALSE

NextSeg == Segment

SpecSeg == InitSeg /\ [][NextSeg]_vars

-----------------------------------------------------------------------------
(* Claims about the segmenter, checked under SpecSeg                       *)

\* The paragraphs chunkText retained for the page of chunk c.
PageParagraphs(c) ==
  Paragraphs(EffectivePages(fullText)[c.pageNumber], options)

\* All paragraphs of the document, retained or not.
AllParagraphs ==
  UNION { {SplitParagraphs(EffectivePages(fullText)[p])[k] :
             k \in 1..Len(SplitParagraphs(EffectivePages(fullText)[p]))} :
          p \in 1..Len(EffectivePages(fullText)) }

\* t occurs in s as one contiguous piece.
IsSubstring(t, s) ==
  \E i \in 0..(Len(s) - Len(t)) : SubSeq(s, i + 1, i + Len(t)) = t

\* C8: the chunks are numbered 0, 1, 2, ... in output order, strictly
\* increasing over the whole document, and their page numbers never decrease.
C8_ChunkIndexIncreasing ==
  segDone =>
    /\ \A i \in 1..Len(chunks) : chunks[i].chunkIndex = i - 1
    /\ \A i, j \in 1..Len(chunks) :
         i < j => /\ chunks[i].chunkIndex < chunks[j].chunkIndex
                  /\ chunks[i].pageNumber <= chunks[j].pageNumber

\* Two chunks on page 1 and one on page 2: the index goes on across the page
\* boundary.
C8_Witness ==
  /\ segDone
  /\ Len(chunks) = 3
  /\ chunks[1].pageNumber = 1
  /\ chunks[2].pageNumber = 1
  /\ chunks[3].pageNumber = 2
  /\ chunks[3].chunkIndex = 2

\* C9: every chunk but possibly the last of the document is at least
\* minChunkLength long, and no discarded paragraph was accumulated: split
\* again at its blank-line boundaries, a chunk holds only pieces of at least
\* minChunkLength (its first piece may be the overlap carried over from the
\* previous chunk of the page).
C9_MinChunkLength ==
  segDone =>
    /\ \A i \in 1..(Len(chunks) - 1) :
         Len(chunks[i].content) >= options.minChunkLength
    /\ \A i \in 1..Len(chunks) :
         LET parts == SplitParagraphs(chunks[i].content)
             firstOfPage ==
               i = 1 \/ chunks[i - 1].pageNumber # chunks[i].pageNumber IN
         \A k \in 1..Len(parts) :
           (k > 1 \/ firstOfPage) =>
             Len(Trim(parts[k])) >= options.minChunkLength

\* A paragraph with text in it was discarded as too short, and the document
\* still gave two chunks or more.
C9_Witness ==
  /\ segDone
  /\ Len(chunks) >= 2
  /\ \E para \in AllParagraphs :
       /\ Trim(para) # <<>>
       /\ Len(Trim(para)) < options.minChunkLength

\* C10 as stated: a chunk is at most chunkSize long unless it is a single
\* paragraph that is itself longer than chunkSize.
C10_AtMostChunkSize ==
  segDone =>
    \A i \in 1..Len(chunks) :
      \/ Len(chunks[i].content) <= options.chunkSize
      \/ \E k \in 1..Len(PageParagraphs(chunks[i])) :
           /\ Len(PageParagraphs(chunks[i])[k]) > options.chunkSize
           /\ chunks[i].content = Trim(PageParagraphs(chunks[i])[k])

\* C10, amended: a chunk is at most chunkSize + chunkOverlap + 2 long (the
\* overlap carried over and the blank-line separator come on top of
\* chunkSize) unless it contains a paragraph that is itself longer than
\* chunkSize.
C10_AtMostChunkSizePlusOverlap ==
  segDone =>
    \A i \in 1..Len(chunks) :
      \/ Len(chunks[i].content) <= options.chunkSize + options.chunkOverlap + 2
      \/ \E k \in 1..Len(PageParagraphs(chunks[i])) :
           /\ Len(PageParagraphs(chunks[i])[k]) > options.chunkSize
           /\ IsSubstring(Trim(PageParagraphs(chunks[i])[k]), chunks[i].content)

\* A chunk made of the carried-over overlap, the separator and a paragraph
\* of exactly chunkSize characters: chunkSize + chunkOverlap + 2 long.
C10_Witness ==
  /\ segDone
  /\ options.chunkOverlap > 0
  /\ \E i \in 1..Len(chunks) :
       /\ Len(chunks[i].content) =
            options.chunkSize + options.chunkOverlap + 2
       /\ \A k \in 1..Len(PageParagraphs(chunks[i])) :
            Len(PageParagraphs(chunks[i])[k]) <= options.chunkSize

-----------------------------------------------------------------------------
(* EmbeddingClient: getEmbeddings                                          *)

\* The longest input sent for one text: t.slice(0, 8000).
EmbeddingInputLimit == 8000

Truncate(t) ==
  SubSeq(t, 1, IF Len(t) < EmbeddingInputLimit THEN Len(t) ELSE EmbeddingInputLimit)

\* The vector the provider computes for an input.
VectorOf(input) == [of |-> input]

\* The permutations of 1..n.
Perms(n) == {f \in [1..n -> 1..n] : \A i, j \in 1..n : f[i] = f[j] => i = j}

\* The provider's response.data for the inputs: one item per input, carrying
\* its zero-based index and its vector, in any order.
ProviderResponses(inputs) ==
  {[k \in 1..Len(inputs) |->
      [index |-> f[k] - 1, embedding |-> VectorOf(inputs[f[k]])]] :
     f \in Perms(Len(inputs))}

\* Array.prototype.sort with (a, b) => a.index - b.index
RECURSIVE SortByIndex(_)
InsertByIndex(sorted, d) ==
  LET before == SelectSeq(sorted, LAMBDA e : e.index <= d.index)
      after == SelectSeq(sorted, LAMBDA e : e.index > d.index) IN
  before \o <<d>> \o after

\* Mutant: response.data is used in the order the provider sent it.
SortAsReceived(data) == data

SortByIndex(data) ==
  IF data = <<>> THEN <<>>
  ELSE InsertByIndex(SortByIndex(SubSeq(data, 1, Len(data) - 1)), data[Len(data)])

\* The inputs of the call and what getEmbeddings returns for a response.
EmbeddingInputs(texts) == [k \in 1..Len(texts) |-> Truncate(texts[k])]
getEmbeddings(data) ==
  LET sorted == SortByIndex(data) IN [k \in 1..Len(sorted) |-> sorted[k].embedding]

-----------------------------------------------------------------------------
(* IngestionPipeline: main of the ingestion runner                         *)

\* The number of PDF files in the input directory.
MaxFiles == 3

\* The file names of the model, in directory order.
FileNames ==
  << <<"s", "b", "a", ".", "p", "d", "f">>,
     <<"x", "-", "E", "P", "A", "R", ".", "p", "d", "f">>,
     <<"n", "d", "a", ".", "P", "D", "F">>,
     <<"y", "_", "e", "p", "a", "r", ".", "p", "d", "f">> >>

\* processPDFFile passes no options: the defaults of chunkText apply.
DefaultOptions == [chunkSize |-> 1500, chunkOverlap |-> 200, minChunkLength |-> 100]

Para(c, n) == [i \in 1..n |-> c]

\* The texts pdf-parse extracts in the model: no text; one paragraph; two
\* pages of one paragraph each; a paragraph too short to be kept; a
\* paragraph with a table reference and a vocabulary phrase.
DocTexts ==
  { <<>>,
    Para("a", 120),
    Para("a", 120) \o <<FF>> \o Para("b", 110),
    Para("c", 60),
    <<"T", "a", "b", "l", "e", " ", "4", ".", "2", " ">>
      \o <<"n", "o", "t", " ", "f", "i", "l", "e", " ">> \o Para("d", 100) }

\* result.chunks of processPDFFile for each of the texts.
DocResults == {processExtractedText(t, DefaultOptions) : t \in DocTexts}

\* A chunk_index that is not defined.
Undefined == [defined |-> FALSE, value |-> 0]

\* The longest trimmed content the filter of main still drops.
MinContentLength == 50

\* Mutant: a chunk of exactly 50 characters is kept.
ValidChunksFromFifty(cs) ==
  SelectSeq(cs, LAMBDA c : Len(Trim(c.content)) >= MinContentLength)

\* result.chunks.filter((c) => c.content.trim().length > 50)
ValidChunks(cs) == SelectSeq(cs, LAMBDA c : Len(Trim(c.content)) > MinContentLength)

Epar == <<"e", "p", "a", "r">>

\* Mutant: the marker is looked for in the file name as written.
JurisdictionAsWritten(file) == IF Includes(file, Epar) THEN "EMA" ELSE "FDA"

\* file.toLowerCase().includes("epar") ? "EMA" : "FDA"
Jurisdiction(file) == IF Includes(ToLowerCase(file), Epar) THEN "EMA" ELSE "FDA"

\* The row main builds for chunk c of the file, with its embedding. The
\* chunk has no property chunk_index (its index is chunkIndex), so the
\* row's chunk_index is undefined.
MakeRow(c, embedding, file) ==
  [content |-> c.content,
   embedding |-> embedding,
   source_document |-> file,
   source_page |-> c.pageNumber,
   chunk_index |-> Undefined,
   contains_table |-> c.containsTable,
   rtf_keywords_detected |->
     IF Len(c.rtfKeywordsDetected) > 0 THEN Some(c.rtfKeywordsDetected) ELSE Null,
   drug_class |-> Null,
   therapeutic_area |-> Null,
   review_type |-> Null,
   reviewer_sentiment |-> Unspecified,
   jurisdiction |-> Jurisdiction(file)]

\* console.log / console.error of main for the file of the loop.
Log(msg) == console' = Append(console, [file |-> fileNo, msg |-> msg])

\* The end of the loop body: the next file, or "Ingestion complete."
NextFile ==
  IF fileNo < Len(pdfFiles)
    THEN fileNo' = fileNo + 1 /\ ipc' = "processPDFFile"
    ELSE fileNo' = fileNo /\ ipc' = "complete"

\* main up to its first processPDFFile call.
IngestStart ==
  /\ ipc = "start"
  /\ IF Len(pdfFiles) = 0
       THEN ipc' = "exit" /\ fileNo' = 0
       ELSE ipc' = "processPDFFile" /\ fileNo' = 1
  /\ UNCHANGED <<pdfFiles, extraction, result, response, insertRows,
                 regulatory_precedents, console>>
  /\ UNCHANGED <<auditVars, riskVars, segVars, matchVars, chatVars, guideVars>>

\* processPDFFile resolves with the chunks r: the filter, then either "No
\* valid chunks" and the next file, or the getEmbeddings call.
ExtractResolves(r) ==
  /\ ipc = "processPDFFile"
  /\ LET valid == ValidChunks(r) IN
     /\ extraction' = Append(extraction, [threw |-> FALSE, chunks |-> r])
     /\ result' = valid
     /\ IF Len(valid) = 0
          THEN Log("No valid chunks extracted") /\ NextFile
          ELSE ipc' = "getEmbeddings" /\ UNCHANGED <<fileNo, console>>
  /\ UNCHANGED <<pdfFiles, response, insertRows, regulatory_precedents>>
  /\ UNCHANGED <<auditVars, riskVars, segVars, matchVars, chatVars, guideVars>>

\* processPDFFile resolves with the chunks of one of the model's texts.
ExtractOk == \E r \in DocResults : ExtractResolves(r)

\* Mutant: a file that cannot be processed ends the run.
ExtractThrowsAborts ==
  /\ ipc = "processPDFFile"
  /\ extraction' = Append(extraction, [threw |-> TRUE, chunks |-> <<>>])
  /\ Log("Error")
  /\ ipc' = "complete"
  /\ UNCHANGED <<pdfFiles, fileNo, result, response, insertRows,
                 regulatory_precedents>>
  /\ UNCHANGED <<auditVars, riskVars, segVars, matchVars, chatVars, guideVars>>

\* processPDFFile rejects: the catch of the loop body, then the next file.
ExtractThrows ==
  /\ ipc = "processPDFFile"
  /\ extraction' = Append(extraction, [threw |-> TRUE, chunks |-> <<>>])
  /\ Log("Error")
  /\ NextFile
  /\ UNCHANGED <<pdfFiles, result, response, insertRows, regulatory_precedents>>
  /\ UNCHANGED <<auditVars, riskVars, segVars, matchVars, chatVars, guideVars>>

\* Mutant: the insert is issued and not awaited; the loop goes on with the
\* next file.
EmbeddingsOkInsertNotAwaited ==
  /\ ipc = "getEmbeddings"
  /\ \E data \in ProviderResponses(
                   EmbeddingInputs([k \in 1..Len(result) |-> result[k].content])) :
       /\ response' = data
       /\ insertRows' = [i \in 1..Len(result) |->
                           MakeRow(result[i], getEmbeddings(data)[i], pdfFiles[fileNo])]
  /\ NextFile
  /\ UNCHANGED <<pdfFiles, extraction, result, regulatory_precedents, console>>
  /\ UNCHANGED <<auditVars, riskVars, segVars, matchVars, chatVars, guideVars>>

\* getEmbeddings resolves: the rows are built and the insert is issued.
EmbeddingsOk ==
  /\ ipc = "getEmbeddings"
  /\ \E data \in ProviderResponses(
                   EmbeddingInputs([k \in 1..Len(result) |-> result[k].content])) :
       LET embeddings == getEmbeddings(data) IN
       /\ response' = data
       /\ insertRows' = [i \in 1..Len(result) |->
                           MakeRow(result[i], embeddings[i], pdfFiles[fileNo])]
  /\ ipc' = "insert"
  /\ UNCHANGED <<pdfFiles, fileNo, extraction, result, regulatory_precedents,
                 console>>
  /\ UNCHANGED <<auditVars, riskVars, segVars, matchVars, chatVars, guideVars>>

\* Mutant: the chunks embedded before the failure are inserted.
EmbeddingsThrowPartial ==
  /\ ipc = "getEmbeddings"
  /\ regulatory_precedents' = regulatory_precedents
       \o <<MakeRow(result[1], VectorOf(Truncate(result[1].content)),
                    pdfFiles[fileNo])>>
  /\ Log("Error")
  /\ NextFile
  /\ UNCHANGED <<pdfFiles, extraction, result, response, insertRows>>
  /\ UNCHANGED <<auditVars, riskVars, segVars, matchVars, chatVars, guideVars>>

\* getEmbeddings rejects: the catch of the loop body, then the next file.
EmbeddingsThrow ==
  /\ ipc = "getEmbeddings"
  /\ Log("Error")
  /\ NextFile
  /\ UNCHANGED <<pdfFiles, extraction, result, response, insertRows,
                 regulatory_precedents>>
  /\ UNCHANGED <<auditVars, riskVars, segVars, matchVars, chatVars, guideVars>>

\* insert resolves without error: the rows are in the table.
InsertOk ==
  /\ ipc = "insert"
  /\ regulatory_precedents' = regulatory_precedents \o insertRows
  /\ Log("Inserted")
  /\ NextFile
  /\ UNCHANGED <<pdfFiles, extraction, result, response, insertRows>>
  /\ UNCHANGED <<auditVars, riskVars, segVars, matchVars, chatVars, guideVars>>

\* insert resolves with an error: none of the rows is in the table.
InsertError ==
  /\ ipc = "insert"
  /\ Log("Supabase upsert error")
  /\ NextFile
  /\ UNCHANGED <<pdfFiles, extraction, result, response, insertRows,
                 regulatory_precedents>>
  /\ UNCHANGED <<auditVars, riskVars, segVars, matchVars, chatVars, guideVars>>

InitIngest ==
  /\ AuditIdle
  /\ ChatIdle
  /\ GuideIdle
  /\ RiskIdle
  /\ SegIdle
  /\ MatchIdle
  /\ ipc = "start"
  /\ pdfFiles \in {SubSeq(FileNames, 1, n) : n \in 0..MaxFiles}
  /\ fileNo = 0
  /\ extraction = <<>>
  /\ result = <<>>
  /\ response = <<>>
  /\ insertRows = <<>>
  /\ regulatory_precedents = <<>>
  /\ console = <<>>

NextIngest ==
  \/ IngestStart
  \/ ExtractOk
  \/ ExtractThrows
  \/ EmbeddingsOk
  \/ EmbeddingsThrow
  \/ InsertOk
  \/ InsertError

SpecIngest == InitIngest /\ [][NextIngest]_vars

-----------------------------------------------------------------------------
(* Claims about ingestion, checked under SpecIngest                        *)

\* C11: whatever order the provider returns the vectors in, getEmbeddings
\* returns one vector per input text in input order, and the row built for
\* the i-th surviving chunk of a document, and every row persisted, carries
\* the content of that chunk and the vector computed for that content.
C11_RowCarriesOwnVector ==
  /\ ipc = "insert" =>
       /\ Len(getEmbeddings(response)) = Len(result)
       /\ Len(insertRows) = Len(result)
       /\ \A i \in 1..Len(result) :
            /\ getEmbeddings(response)[i] = VectorOf(Truncate(result[i].content))
            /\ insertRows[i].content = result[i].content
            /\ insertRows[i].embedding = VectorOf(Truncate(result[i].content))
  /\ \A k \in 1..Len(regulatory_precedents) :
       regulatory_precedents[k].embedding
         = VectorOf(Truncate(regulatory_precedents[k].content))

\* Two chunks with different texts are persisted after the provider
\* answered with their vectors in reverse order.
C11_Witness ==
  /\ Len(regulatory_precedents) = 2
  /\ regulatory_precedents[1].content # regulatory_precedents[2].content
  /\ Len(response) = 2
  /\ response[1].index = 1
  /\ response[1].embedding = regulatory_precedents[2].embedding

\* The rows of the table that come from file f, and what main logged for it.
RowsOf(f) ==
  SelectSeq(regulatory_precedents, LAMBDA r : r.source_document = pdfFiles[f])
Logged(f, msg) == \E k \in 1..Len(console) : console[k] = [file |-> f, msg |-> msg]
Contents(cs) == [k \in 1..Len(cs) |-> cs[k].content]

\* File f is behind main: the loop is at a later file or has ended.
Behind(f) == f < fileNo \/ (f = fileNo /\ ipc = "complete")

\* After file f the run goes on: with the next file, if there is one, and to
\* its end otherwise.
GoesOnAfter(f) ==
  /\ f < Len(pdfFiles) =>
       Len(extraction) > f \/ (ipc = "processPDFFile" /\ fileNo = f + 1)
  /\ ipc = "complete" => Len(extraction) = Len(pdfFiles)

\* C12: a document whose extraction fails contributes no rows and is
\* reported as failed, and the run goes on with the documents after it;
\* every document, before or after a failed one, whose own embedding and
\* insert succeed has the contents of its surviving chunks stored, in order.
C12_FailedDocumentIsolated ==
  /\ \A f \in 1..Len(extraction) :
       extraction[f].threw =>
         /\ RowsOf(f) = <<>>
         /\ Logged(f, "Error")
         /\ GoesOnAfter(f)
  /\ \A f \in 1..Len(extraction) :
       Logged(f, "Inserted") =>
         Contents(RowsOf(f)) = Contents(ValidChunks(extraction[f].chunks))
  /\ \A f \in 1..Len(extraction) :
       (Behind(f) /\ ~extraction[f].threw
          /\ ValidChunks(extraction[f].chunks) # <<>>)
         => \/ Logged(f, "Inserted")
            \/ Logged(f, "Error")
            \/ Logged(f, "Supabase upsert error")

\* Three documents: the second fails in extraction, the first and the
\* third have their chunks stored.
C12_Witness ==
  /\ ipc = "complete"
  /\ Len(pdfFiles) = 3
  /\ extraction[2].threw
  /\ RowsOf(2) = <<>>
  /\ Len(RowsOf(1)) = 2
  /\ Len(RowsOf(3)) = 1

\* File f got its chunks from processPDFFile and its embedding call failed.
EmbeddingFailed(f) ==
  /\ f <= Len(extraction)
  /\ ~extraction[f].threw
  /\ ValidChunks(extraction[f].chunks) # <<>>
  /\ Logged(f, "Error")

\* C13: when the batch embedding call of a document fails, none of that
\* document's chunks is in the table, at that moment or later, and the run
\* goes on with the documents after it.
C13_EmbeddingFailureAtomic ==
  \A f \in 1..Len(pdfFiles) :
    EmbeddingFailed(f) => RowsOf(f) = <<>> /\ GoesOnAfter(f)

\* The embedding call of the first document, which has two chunks, failed,
\* and the second document's chunks are stored.
C13_Witness ==
  /\ ipc = "complete"
  /\ Len(pdfFiles) >= 2
  /\ EmbeddingFailed(1)
  /\ Len(ValidChunks(extraction[1].chunks)) = 2
  /\ RowsOf(1) = <<>>
  /\ Logged(2, "Inserted")
  /\ RowsOf(2) # <<>>

-----------------------------------------------------------------------------
(* PrecedentStore: match_regulatory_precedents                             *)

\* The largest match_count of a call.
MaxMatchCount == 2

CMC == <<"C", "M", "C">>
Medical == <<"M", "e", "d", "i", "c", "a", "l">>
FDA == <<"F", "D", "A">>
EMA == <<"E", "M", "A">>
Statin == <<"s", "t", "a", "t", "i", "n">>

\* A row of regulatory_precedents as the function reads it: distance is
\* rp.embedding <=> query_embedding in hundredths.
Precedent(i, d, dc, rt, j) ==
  [id |-> i, distance |-> d, drug_class |-> dc, review_type |-> rt,
   jurisdiction |-> j]

\* The rows a table of the model is made of: two rows at the same distance,
\* rows at similarity 0.70 and 0.60 (the thresholds of the model), rows
\* without a drug class or a jurisdiction.
PrecedentPool ==
  {Precedent(1, 10, Some(Statin), Some(CMC), Some(FDA)),
   Precedent(2, 10, Null, Some(CMC), Some(EMA)),
   Precedent(3, 20, Some(Statin), Some(CMC), Some(FDA)),
   Precedent(4, 30, Some(Statin), Some(Medical), Null),
   Precedent(5, 35, Some(Statin), Some(CMC), Some(FDA)),
   Precedent(6, 40, Some(Statin), Some(CMC), Some(FDA))}

\* 1 - (rp.embedding <=> query_embedding)
Similarity(rp) == 100 - rp.distance

\* (filter IS NULL OR column = filter): a NULL column equals no filter.
FilterPasses(filter, column) ==
  filter.null \/ (~column.null /\ column.str = filter.str)

\* Mutant: a row at the threshold passes.
AboveThresholdInclusive(rp, match_threshold) == Similarity(rp) >= match_threshold

\* 1 - (rp.embedding <=> query_embedding) > match_threshold
AboveThreshold(rp, match_threshold) == Similarity(rp) > match_threshold

\* The WHERE clause.
Where(rp, args) ==
  /\ AboveThreshold(rp, args.match_threshold)
  /\ FilterPasses(args.filter_drug_class, rp.drug_class)
  /\ FilterPasses(args.filter_review_type, rp.review_type)
  /\ FilterPasses(args.filter_jurisdiction, rp.jurisdiction)

\* ORDER BY rp.embedding <=> query_embedding: the orders of the selected
\* rows by ascending distance; rows at one distance come in any order.
OrderByDistance(selected) ==
  {o \in [1..Cardinality(selected) -> selected] :
     /\ \A i, j \in 1..Cardinality(selected) : o[i] = o[j] => i = j
     /\ \A i, j \in 1..Cardinality(selected) :
          i < j => o[i].distance <= o[j].distance}

\* LIMIT match_count
Limit(ordered, match_count) ==
  SubSeq(ordered, 1, IF Len(ordered) < match_count THEN Len(ordered)
                                                      ELSE match_count)

\* The SELECT list.
Returned(rp) ==
  [id |-> rp.id, similarity |-> Similarity(rp), drug_class |-> rp.drug_class,
   review_type |-> rp.review_type]

\* One call of match_regulatory_precedents.
Match ==
  /\ ~matchDone
  /\ \E ordered \in OrderByDistance({rp \in precedents : Where(rp, matchArgs)}) :
       matched' = [k \in 1..Len(Limit(ordered, matchArgs.match_count)) |->
                     Returned(Limit(ordered, matchArgs.match_count)[k])]
  /\ matchDone' = TRUE
  /\ UNCHANGED <<precedents, matchArgs>>
  /\ UNCHANGED <<auditVars, riskVars, segVars, ingestVars, chatVars, guideVars>>

InitMatch ==
  /\ AuditIdle
  /\ ChatIdle
  /\ GuideIdle
  /\ RiskIdle
  /\ SegIdle
  /\ IngestIdle
  /\ precedents \in SUBSET PrecedentPool
  /\ matchArgs \in [match_threshold : {60, 70},
                    match_count : 0..MaxMatchCount,
                    filter_drug_class : {Null, Some(Statin)},
                    filter_review_type : {Null, Some(CMC)},
                    filter_jurisdiction : {Null, Some(FDA)}]
  /\ matched = <<>>
  /\ matchDone = FALSE

NextMatch == Match

SpecMatch == InitMatch /\ [][NextMatch]_vars

\* The table row a returned row was read from.
Origin(m) == CHOOSE rp \in precedents : rp.id = m.id

\* A non-null filter is satisfied by the column value that equals it.
Satisfies(column, filter) == filter.null \/ column = filter

Qualifying ==
  {rp \in precedents :
     /\ 100 - rp.distance > matchArgs.match_threshold
     /\ Satisfies(rp.drug_class, matchArgs.filter_drug_class)
     /\ Satisfies(rp.review_type, matchArgs.filter_review_type)
     /\ Satisfies(rp.jurisdiction, matchArgs.filter_jurisdiction)}

-----------------------------------------------------------------------------
(* A claim about the narrative of predictive_audit, checked under Spec     *)

\* C15: whatever the summarizer call does (it resolves with a usable text,
\* with an empty or "No API key" text, or it rejects), the request returns
\* a result, and that result has the findings, the riskSummary and the
\* guidanceContextUsed the request held before the call: from one state
\* before the call the outcomes differ in executiveSummary only.
C15_SummarizerOnlyNarrative ==
  [][pc = "summary" =>
       /\ pc' = "done"
       /\ findings' = findings
       /\ riskSummary' = riskSummary
       /\ guidanceContextUsed' = guidanceContextUsed
       /\ angleResults' = angleResults]_vars

\* The summarizer rejected and the request returned its findings.
C15_Witness ==
  /\ pc = "done"
  /\ executiveSummary = "could-not-generate"
  /\ Len(findings) >= 2
  /\ riskSummary.red + riskSummary.yellow + riskSummary.green = Len(findings)

-----------------------------------------------------------------------------
(* SpecAnnot: one call of processExtractedText on a text that mentions     *)
(* tables and vocabulary phrases                                           *)

\* The number of fragments a text of SpecAnnot is made of.
MaxFragments == 3

Table42 == <<"T", "a", "b", "l", "e", " ", "4", ".", "2">>
Tablet == <<"t", "a", "b", "l", "e", "t">>
ScientificIncompleteness ==
  <<"s", "c", "i", "e", "n", "t", "i", "f", "i", "c", " ",
    "i", "n", "c", "o", "m", "p", "l", "e", "t", "e", "n", "e", "s", "s">>

\* The fragments: table references in several forms and letter cases, the
\* word "tablet", vocabulary phrases in other letter cases than the
\* vocabulary's, a digit, a space and a paragraph boundary.
Fragments ==
  {Table42,
   ToLowerCase(Table42),
   Tablet,
   <<"T", "a", "b", "l", "e", "s", " ", "1", "-", "3">>,
   <<"T", "a", "b", "l", "e", " ", "C">>,
   <<"S", "c", "i", "e", "n", "t", "i", "f", "i", "c", " ",
     "I", "N", "C", "O", "M", "P", "L", "E", "T", "E", "N", "E", "S", "S">>,
   <<"2", "1", " ", "C", "F", "R", " ", "6", "0", "1", ".", "2">>,
   <<"5">>,
   <<" ">>,
   <<NL, NL>>}

AnnotTexts ==
  {Flatten(fs) : fs \in UNION {[1..n -> Fragments] : n \in 0..MaxFragments}}

\* The options of SpecAnnot, on the scale of its texts.
AnnotOptions == [chunkSize |-> 30, chunkOverlap |-> 5, minChunkLength |-> 1]

InitAnnot ==
  /\ AuditIdle
  /\ ChatIdle
  /\ GuideIdle
  /\ RiskIdle
  /\ IngestIdle
  /\ MatchIdle
  /\ fullText \in AnnotTexts
  /\ options = AnnotOptions
  /\ chunks = <<>>
  /\ segDone = FALSE

NextAnnot == Segment

SpecAnnot == InitAnnot /\ [][NextAnnot]_vars

-----------------------------------------------------------------------------
(* Claims about the annotator, checked under SpecAnnot                     *)

\* The positions of text at which t occurs when letter case is ignored.
OccurrencesIgnoringCase(t, text) ==
  {i \in 1..(Len(text) - Len(t) + 1) :
     \A k \in 1..Len(t) : LowerChar(text[i + k - 1]) = LowerChar(t[k])}

\* t occurs in text as a substring when letter case is ignored.
OccursIgnoringCase(t, text) ==
  \E i \in 1..(Len(text) - Len(t) + 1) :
    \A k \in 1..Len(t) : LowerChar(text[i + k - 1]) = LowerChar(t[k])

InSeq(x, xs) == \E k \in 1..Len(xs) : xs[k] = x

\* C16: for every chunk, rtfKeywordsDetected holds exactly the vocabulary
\* phrases that occur in the chunk's content as a substring when letter case
\* is ignored, each once and as the vocabulary writes it; a chunk with no
\* vocabulary phrase has the empty list.
C16_KeywordsExactlyThoseOccurring ==
  \A c \in 1..Len(chunks) :
    LET found == chunks[c].rtfKeywordsDetected IN
    /\ \A v \in 1..Len(RTF_KEYWORDS) :
         InSeq(RTF_KEYWORDS[v], found)
           <=> OccursIgnoringCase(RTF_KEYWORDS[v], chunks[c].content)
    /\ \A k \in 1..Len(found) : InSeq(found[k], RTF_KEYWORDS)
    /\ \A k, l \in 1..Len(found) : found[k] = found[l] => k = l

\* A text with "Scientific INCOMPLETENESS" in one chunk, which yields the
\* phrase as the vocabulary writes it, and a second chunk with no phrase.
C16_Witness ==
  /\ Len(chunks) = 2
  /\ chunks[1].rtfKeywordsDetected = <<ScientificIncompleteness>>
  /\ ~Includes(chunks[1].content, ScientificIncompleteness)
  /\ chunks[2].rtfKeywordsDetected = <<>>
  /\ chunks[2].content # <<>>

\* C17: for every chunk produced by processExtractedText, containsTable is
\* true if and only if tableReferences is not empty.
C17_ContainsTableIffReferences ==
  \A c \in 1..Len(chunks) :
    chunks[c].containsTable <=> chunks[c].tableReferences # <<>>

\* A chunk without a table reference followed by a chunk with one.
C17_Witness ==
  /\ Len(chunks) = 2
  /\ ~chunks[1].containsTable
  /\ chunks[1].tableReferences = <<>>
  /\ chunks[2].containsTable
  /\ Len(chunks[2].tableReferences) = 1

Normalized(m) == ToLowerCase(Trim(m))

\* C18: the tableReferences of a chunk hold one entry per normalized form
\* (lower-cased, trimmed) that a pattern matches in the chunk's content: no
\* two entries have the same normalized form, and every entry is the
\* trimmed text, in its original letter case, of the first match with its
\* normalized form, the matches taken pattern after pattern in list order.
C18_ReferencesDedupedOriginalForm ==
  \A c \in 1..Len(chunks) :
    LET refs == chunks[c].tableReferences
        ms == AllMatches(chunks[c].content, 1) IN
    /\ \A i, j \in 1..Len(refs) :
         Normalized(refs[i]) = Normalized(refs[j]) => i = j
    /\ \A i \in 1..Len(refs) :
         \E k \in 1..Len(ms) :
           /\ refs[i] = Trim(ms[k])
           /\ \A l \in 1..(k - 1) : Normalized(ms[l]) # Normalized(ms[k])
    /\ \A k \in 1..Len(ms) :
         \E i \in 1..Len(refs) : Normalized(refs[i]) = Normalized(ms[k])

\* A chunk in which one reference is matched in two letter cases, the
\* lower-case one first.
C18_Witness ==
  \E c \in 1..Len(chunks) :
    /\ chunks[c].tableReferences = <<ToLowerCase(Table42)>>
    /\ AllMatches(chunks[c].content, 1) = <<ToLowerCase(Table42), Table42>>

\* The positions at which t occurs in text, letter case ignored, as a
\* reference of its own: no letter, digit or underscore before or after it.
WholeOccurrences(t, text) ==
  {i \in OccurrencesIgnoringCase(t, text) :
     ~IsWordAt(text, i - 1) /\ ~IsWordAt(text, i + Len(t))}

\* The text of the first such occurrence, in the letter case of the text.
FirstForm(t, text) ==
  LET whole == WholeOccurrences(t, text)
      i == CHOOSE k \in whole : \A j \in whole : k <= j IN
  SubSeq(text, i, i + Len(t) - 1)

\* The only table-like text is the word "tablet": every "table" of the text
\* is the beginning of a "tablet".
OnlyTablet(text) ==
  /\ OccurrencesIgnoringCase(Tablet, text) # {}
  /\ OccurrencesIgnoringCase(SubSeq(Tablet, 1, 5), text)
       \subseteq OccurrencesIgnoringCase(Tablet, text)

NoTable(c) == ~chunks[c].containsTable /\ chunks[c].tableReferences = <<>>

\* C19 as stated: a chunk whose content contains "Table 4.2" has
\* containsTable = true and "Table 4.2" among its tableReferences, and a
\* chunk whose only table-like text is the word "tablet" has
\* containsTable = false and no tableReferences.
C19_AsStated ==
  \A c \in 1..Len(chunks) :
    /\ Includes(chunks[c].content, Table42) =>
         chunks[c].containsTable /\ InSeq(Table42, chunks[c].tableReferences)
    /\ OnlyTablet(chunks[c].content) => NoTable(c)

\* C19, amended: a chunk in which "Table 4.2" occurs as a reference of its
\* own, not inside a longer word or number, has containsTable = true and
\* has that reference among its tableReferences in the letter case of its
\* first such occurrence in the chunk; a chunk whose only table-like text
\* is the word "tablet" has containsTable = false and no tableReferences.
C19_WholeReferenceFirstCase ==
  \A c \in 1..Len(chunks) :
    /\ (\E i \in WholeOccurrences(Table42, chunks[c].content) :
          SubSeq(chunks[c].content, i, i + Len(Table42) - 1) = Table42) =>
         /\ chunks[c].containsTable
         /\ InSeq(FirstForm(Table42, chunks[c].content),
                  chunks[c].tableReferences)
    /\ OnlyTablet(chunks[c].content) => NoTable(c)

\* A chunk that mentions "tablet" and then "Table 4.2": the reference is
\* its only table reference.
C19_Witness ==
  \E c \in 1..Len(chunks) :
    /\ OccurrencesIgnoringCase(Tablet, chunks[c].content) = {1}
    /\ WholeOccurrences(Table42, chunks[c].content) # {}
    /\ chunks[c].containsTable
    /\ chunks[c].tableReferences = <<Table42>>

-----------------------------------------------------------------------------
(* SpecTwoPage: processExtractedText on a two-page document whose first    *)
(* page holds twice chunkSize characters of paragraph text                 *)

\* chunkSize on the scale of the two-page documents (1500 in the claim).
ScaledChunkSize == 6

\* The paragraph text of page 1 (3000 to 1500) and of page 2 (400 to 1500).
Page1Length == 2 * ScaledChunkSize
Page2Length == ScaledChunkSize \div 3

TwoPageOptions ==
  [chunkSize |-> ScaledChunkSize, chunkOverlap |-> 1, minChunkLength |-> 2]

\* n letters, divided into paragraphs by a blank line after each letter
\* whose position is in cuts.
Divided(n, cuts) ==
  Flatten([i \in 1..n |-> IF i \in cuts THEN <<"x", NL, NL>> ELSE <<"x">>])

\* The documents: page 1 divided into paragraphs in every way, page 2 one
\* paragraph.
TwoPageTexts ==
  {Divided(Page1Length, cuts) \o <<FF>> \o Divided(Page2Length, {}) :
     cuts \in SUBSET (1..(Page1Length - 1))}

InitTwoPage ==
  /\ AuditIdle
  /\ ChatIdle
  /\ GuideIdle
  /\ RiskIdle
  /\ IngestIdle
  /\ MatchIdle
  /\ fullText \in TwoPageTexts
  /\ options = TwoPageOptions
  /\ chunks = <<>>
  /\ segDone = FALSE

NextTwoPage == Segment

SpecTwoPage == InitTwoPage /\ [][NextTwoPage]_vars

ChunksOfPage(p) == {k \in 1..Len(chunks) : chunks[k].pageNumber = p}

\* At least 2 chunks from page 1, exactly 1 from page 2, chunkIndex
\* increasing over all of them.
TwoPageOutcome ==
  /\ Cardinality(ChunksOfPage(1)) >= 2
  /\ Cardinality(ChunksOfPage(2)) = 1
  /\ \A k, l \in 1..Len(chunks) :
       k < l => chunks[k].chunkIndex < chunks[l].chunkIndex

Page1Paragraphs == SplitParagraphs(SplitPages(fullText)[1])

-----------------------------------------------------------------------------
(* Further claims about ingestion, checked under SpecIngest                *)

\* A chunk index that is defined.
Defined(n) == [defined |-> TRUE, value |-> n]

\* C21: each persisted row carries as its chunk_index the chunkIndex the
\* segmenter assigned to its chunk, so the chunk_index values of one
\* document are defined and strictly increasing in chunk order.
C21_RowCarriesChunkIndex ==
  \A f \in 1..Len(extraction) :
    Logged(f, "Inserted") =>
      LET stored == RowsOf(f)
          valid == ValidChunks(extraction[f].chunks) IN
      /\ Len(stored) = Len(valid)
      /\ \A k \in 1..Len(stored) :
           stored[k].chunk_index = Defined(valid[k].chunkIndex)
      /\ \A k, l \in 1..Len(stored) :
           k < l => stored[k].chunk_index.value < stored[l].chunk_index.value

-----------------------------------------------------------------------------
(* Further claims about the segmenter, checked under SpecSeg               *)

IsPrefix(t, s) == Len(t) <= Len(s) /\ SubSeq(s, 1, Len(t)) = t
IsSuffix(t, s) == Len(t) <= Len(s) /\ SubSeq(s, Len(s) - Len(t) + 1, Len(s)) = t

\* s without its leading whitespace.
TrimStart(s) ==
  IF \A i \in 1..Len(s) : IsWs(s[i]) THEN <<>>
  ELSE SubSeq(s,
              CHOOSE i \in 1..Len(s) :
                ~IsWs(s[i]) /\ \A j \in 1..(i - 1) : IsWs(s[j]),
              Len(s))

\* The trailing min(overlap, length) characters of the content of a chunk.
Trailing(content) ==
  LET n == IF options.chunkOverlap < Len(content)
             THEN options.chunkOverlap ELSE Len(content) IN
  SubSeq(content, Len(content) - n + 1, Len(content))

\* Chunk c was emitted because the next paragraph would overflow: it is not
\* the last chunk of its page.
EmittedOnOverflow(c) ==
  c < Len(chunks) /\ chunks[c].pageNumber = chunks[c + 1].pageNumber

\* C22 as stated: the chunk after one emitted on overflow begins with the
\* trailing min(overlap, length) characters of the emitted chunk followed by
\* the triggering paragraph (with or without the blank-line separator that
\* joins them, the paragraph trimmed or not).
C22_AsStated ==
  segDone =>
    \A c \in 1..Len(chunks) :
      EmittedOnOverflow(c) =>
        \E k \in 1..Len(PageParagraphs(chunks[c])) :
          LET para == PageParagraphs(chunks[c])[k]
              tail == Trailing(chunks[c].content) IN
          \E sep \in {<<>>, <<NL, NL>>} :
            \E p \in {para, Trim(para)} :
              IsPrefix(tail \o sep \o p, chunks[c + 1].content)

\* No retained paragraph of the page of chunk c ends with whitespace.
NoTrailingWhitespace(c) ==
  \A k \in 1..Len(PageParagraphs(chunks[c])) :
    LET para == PageParagraphs(chunks[c])[k] IN
    para = <<>> \/ ~IsWs(para[Len(para)])

\* C22, amended: the chunk after one emitted on overflow begins with a
\* suffix of the emitted chunk of at most overlap characters, followed after
\* whitespace by a retained paragraph of the page; that suffix is the
\* trailing min(overlap, length) characters of the emitted chunk, followed
\* by the blank-line separator and the paragraph, when overlap > 0, no
\* paragraph of the page ends with whitespace and those trailing characters
\* do not begin with whitespace.
C22_OverlapUpToWhitespace ==
  segDone =>
    \A c \in 1..Len(chunks) :
      EmittedOnOverflow(c) =>
        LET content == chunks[c].content
            next == chunks[c + 1].content
            tail == Trailing(content)
            retained == PageParagraphs(chunks[c]) IN
        /\ \E n \in 0..Len(tail) :
             LET carried == SubSeq(content, Len(content) - n + 1, Len(content)) IN
             /\ IsPrefix(carried, next)
             /\ \E k \in 1..Len(retained) :
                  IsPrefix(Trim(retained[k]),
                           TrimStart(SubSeq(next, n + 1, Len(next))))
        /\ (/\ options.chunkOverlap > 0
            /\ NoTrailingWhitespace(c)
            /\ ~IsWs(tail[1]))
             => \E k \in 1..Len(retained) :
                  IsPrefix(tail \o <<NL, NL>> \o retained[k], next)

\* Two paragraphs of two letters with chunkSize 3 and overlap 1: the second
\* chunk is the last letter of the first, the separator and the second
\* paragraph.
C22_Witness ==
  /\ segDone
  /\ options.chunkOverlap = 1
  /\ Len(chunks) = 2
  /\ EmittedOnOverflow(1)
  /\ chunks[1].content = <<"x", "x">>
  /\ chunks[2].content = <<"x", NL, NL, "x", "x">>

\* The chunks emitted for page p.
ChunksOf(p) == {c \in 1..Len(chunks) : chunks[c].pageNumber = p}

\* C23: every paragraph of a page whose trimmed length is at least
\* minChunkLength appears whole, as one contiguous piece up to surrounding
\* whitespace, in a chunk emitted for that page, whether it was emitted on
\* overflow or was in the buffer at the end of the page, and however long it
\* is.
C23_RetainedParagraphsAppearWhole ==
  segDone =>
    \A p \in 1..Len(EffectivePages(fullText)) :
      LET paragraphs == SplitParagraphs(EffectivePages(fullText)[p]) IN
      \A k \in 1..Len(paragraphs) :
        Len(Trim(paragraphs[k])) >= options.minChunkLength =>
          \E c \in ChunksOf(p) : IsSubstring(Trim(paragraphs[k]), chunks[c].content)

\* A page whose first paragraph is longer than chunkSize and is emitted on
\* overflow, and whose last paragraph is emitted from the buffer at the end
\* of the page.
C23_Witness ==
  /\ segDone
  /\ Len(chunks) = 2
  /\ EmittedOnOverflow(1)
  /\ LET paragraphs == SplitParagraphs(EffectivePages(fullText)[1]) IN
     /\ Len(paragraphs) = 2
     /\ Len(Trim(paragraphs[1])) > options.chunkSize
     /\ chunks[1].content = Trim(paragraphs[1])
     /\ IsSuffix(Trim(paragraphs[2]), chunks[2].content)

-----------------------------------------------------------------------------
(* SpecFilter: main on one file whose chunks are around the length the     *)
(* filter of main compares with                                            *)

\* The number of chunks of the file.
MaxBoundaryChunks == 2

\* The contents of the chunks: 49, 50, 51 and 100 characters, and 49
\* characters between two spaces.
BoundaryContents ==
  {Para("a", MinContentLength - 1),
   Para("b", MinContentLength),
   Para("c", MinContentLength + 1),
   Para("e", 2 * MinContentLength),
   <<" ">> \o Para("d", MinContentLength - 1) \o <<" ">>}

\* result.chunks: the chunks, numbered from 0 on page 1.
BoundaryResults ==
  {[k \in 1..Len(cs) |-> ProcessedChunk(RawChunk(cs[k], 1, k - 1), k - 1)] :
     cs \in UNION {[1..n -> BoundaryContents] : n \in 0..MaxBoundaryChunks}}

\* processPDFFile resolves with chunks of any of these lengths.
ExtractBoundary == \E r \in BoundaryResults : ExtractResolves(r)

InitFilter ==
  /\ AuditIdle
  /\ ChatIdle
  /\ GuideIdle
  /\ RiskIdle
  /\ SegIdle
  /\ MatchIdle
  /\ ipc = "start"
  /\ pdfFiles \in {<<>>, SubSeq(FileNames, 1, 1)}
  /\ fileNo = 0
  /\ extraction = <<>>
  /\ result = <<>>
  /\ response = <<>>
  /\ insertRows = <<>>
  /\ regulatory_precedents = <<>>
  /\ console = <<>>

NextFilter ==
  \/ IngestStart
  \/ ExtractBoundary
  \/ ExtractThrows
  \/ EmbeddingsOk
  \/ EmbeddingsThrow
  \/ InsertOk
  \/ InsertError

SpecFilter == InitFilter /\ [][NextFilter]_vars

\* The chunks of cs with a trimmed content of at least n characters.
AtLeast(cs, n) == SelectSeq(cs, LAMBDA c : Len(Trim(c.content)) >= n)

\* What main did with the chunks of file f, when the chunks with a trimmed
\* content of at least n characters are the ones to survive: the survivors
\* are the texts of the embed call and the rows of the insert, in order; a
\* document without survivors is reported and causes neither call.
FilteredAt(f, n) ==
  LET survivors == AtLeast(extraction[f].chunks, n) IN
  /\ (f = fileNo /\ ipc \in {"getEmbeddings", "insert"}) =>
       /\ survivors # <<>>
       /\ result = survivors
  /\ (f = fileNo /\ ipc = "insert") =>
       /\ [k \in 1..Len(response) |-> response[k].embedding]
            \in {[k \in 1..Len(survivors) |->
                    VectorOf(Truncate(survivors[pi[k]].content))] :
                 pi \in Perms(Len(survivors))}
       /\ Contents(insertRows) = Contents(survivors)
  /\ Logged(f, "Inserted") => Contents(RowsOf(f)) = Contents(survivors)
  /\ (Behind(f) /\ survivors = <<>>) =>
       /\ Logged(f, "No valid chunks extracted")
       /\ response = <<>>
       /\ insertRows = <<>>
       /\ RowsOf(f) = <<>>

-----------------------------------------------------------------------------
(* Claims about the order of ingestion, checked under SpecIngest           *)

\* The outcomes main reports for a file, and the position of a file name in
\* the listing.
Outcomes == {"No valid chunks extracted", "Error", "Inserted", "Supabase upsert error"}
Outcome(f) == {k \in 1..Len(console) : console[k].file = f}
ListingIndex(name) == CHOOSE f \in 1..Len(pdfFiles) : pdfFiles[f] = name

\* An embed call, an insert is in flight.
EmbedInFlight == ipc = "getEmbeddings"
InsertInFlight == ipc = "insert"

\* C25: the documents are processed one at a time in listing order. While
\* document fileNo is being extracted, embedded or inserted, every document
\* before it has its one outcome (stored, failed or nothing to store), it
\* has none yet, and no later document has been touched; outcomes and rows
\* appear in listing order, and an embed call and an insert are never in
\* flight together.
C25_OneDocumentAtATime ==
  /\ \A f \in 1..Len(pdfFiles) :
       /\ Behind(f) => Cardinality(Outcome(f)) = 1
       /\ (f = fileNo /\ ipc \in {"processPDFFile", "getEmbeddings", "insert"})
            => Outcome(f) = {} /\ RowsOf(f) = <<>>
       /\ f > fileNo => Outcome(f) = {} /\ RowsOf(f) = <<>>
  /\ Len(extraction) = IF ipc = "processPDFFile" THEN fileNo - 1 ELSE fileNo
  /\ \A k \in 1..Len(console) :
       /\ console[k].msg \in Outcomes
       /\ \A l \in 1..Len(console) : k < l => console[k].file < console[l].file
  /\ \A k, l \in 1..Len(regulatory_precedents) :
       k < l => ListingIndex(regulatory_precedents[k].source_document)
                  <= ListingIndex(regulatory_precedents[l].source_document)
  /\ ~(EmbedInFlight /\ InsertInFlight)
  /\ InsertInFlight => insertRows # <<>> /\ insertRows[1].source_document = pdfFiles[fileNo]

\* The insert of the third document is in flight after the first was
\* stored and the second failed.
C25_Witness ==
  /\ InsertInFlight
  /\ fileNo = 3
  /\ Logged(1, "Inserted")
  /\ Logged(2, "Error")
  /\ RowsOf(1) # <<>>

-----------------------------------------------------------------------------
(* Claims about the risk tally, checked under Spec                         *)

\* The findings of the result at risk level l.
FindingsAt(l) == {n \in 1..Len(findings) : findings[n].riskLevel = l}

\* The number of rows the angles returned, duplicates included.
RowsReturned ==
  Len(angleResults["A"]) + Len(angleResults["B"]) + Len(angleResults["C"])

\* C26: the tally counts the deduplicated findings per risk level, each
\* finding's level is assignRiskLevel of its own similarity and sentiment,
\* and the three counts add up to the number of findings.
C26_TallyCountsFindings ==
  Built =>
    /\ riskSummary.red = Cardinality(FindingsAt("RED"))
    /\ riskSummary.yellow = Cardinality(FindingsAt("YELLOW"))
    /\ riskSummary.green = Cardinality(FindingsAt("GREEN"))
    /\ \A n \in 1..Len(findings) :
         findings[n].riskLevel =
           assignRiskLevel(findings[n].similarity, findings[n].reviewerSentiment)
    /\ riskSummary.red + riskSummary.yellow + riskSummary.green = Len(findings)
    /\ Len(findings) <= RowsReturned

\* Chunk 1 comes back from angle A with similarity 0.70 (GREEN) and from
\* angle B with 0.90 (YELLOW), chunk 2 is RED: the tally is one RED and one
\* GREEN, and the dropped YELLOW duplicate is not counted.
C26_Witness ==
  /\ pc = "done"
  /\ angleResults["A"] = <<Row(1, 70, Some(Neutral))>>
  /\ angleResults["B"] = <<Row(1, 90, Some(Neutral)), Row(2, 82, Some(Concerned))>>
  /\ riskSummary = [red |-> 1, yellow |-> 0, green |-> 1]
  /\ Len(findings) = 2

-----------------------------------------------------------------------------
(* Claims about the curation fields of a row, checked under SpecIngest     *)

\* C27: every persisted row has jurisdiction EMA if the name of its source
\* file contains "epar" in any letter case and FDA otherwise, reviewer
\* sentiment Unspecified, and no drug class, therapeutic area or review
\* type.
C27_RowDefaults ==
  \A k \in 1..Len(regulatory_precedents) :
    LET row == regulatory_precedents[k] IN
    /\ row.jurisdiction =
         IF OccursIgnoringCase(Epar, row.source_document) THEN "EMA" ELSE "FDA"
    /\ row.reviewer_sentiment = Unspecified
    /\ row.drug_class = Null
    /\ row.therapeutic_area = Null
    /\ row.review_type = Null

\* Rows of "sba.pdf" are stored as FDA and rows of "x-EPAR.pdf" as EMA.
C27_Witness ==
  /\ \E k \in 1..Len(regulatory_precedents) :
       /\ regulatory_precedents[k].source_document = FileNames[1]
       /\ regulatory_precedents[k].jurisdiction = "FDA"
  /\ \E k \in 1..Len(regulatory_precedents) :
       /\ regulatory_precedents[k].source_document = FileNames[2]
       /\ regulatory_precedents[k].jurisdiction = "EMA"

-----------------------------------------------------------------------------
(* SpecLive: a predictive_audit request whose own steps are taken; whether *)
(* a provider call ever completes is up to the provider                    *)

\* predictive_audit runs up to its first provider call once it is called.
\* The completions of getEmbedding, of the rpc calls and of chatCompletion
\* are the providers' steps: the code sets no timeout on them, takes no
\* cancellation signal and races them against nothing, so nothing in the
\* program makes them happen.
SpecLive == Init /\ [][Next]_vars /\ WF_vars(Start \/ StartRejects)

\* The request has returned a result or has failed.
CallReturned == pc \in {"done", "rejected"}

\* C28: every predictive_audit call eventually returns, also when a
\* provider call that is in flight never completes.
C28_EveryCallReturns == (pc # "idle") ~> CallReturned

-----------------------------------------------------------------------------
(* ChatRoute: POST of /api/chat and streamChatCompletion                   *)

\* The number of chunks of text the provider sends before its stream ends.
MaxChunks == 2

\* What the provider's stream yields as the text of a chunk; "" is skipped
\* by streamChatCompletion.
LlmTexts == {<<>>, <<"a">>, <<"b">>}

\* What the provider's stream can throw: an Error with a message, or a value
\* that is not an Error.
Errors ==
  {[isError |-> TRUE, message |-> <<"q", "u", "o", "t", "a">>],
   [isError |-> FALSE, message |-> <<>>]}

\* The Error streamChatCompletion throws when no key is configured.
NoProviderError ==
  [isError |-> TRUE,
   message |-> <<"A", "d", "d", " ", "G", "E", "M", "I", "N", "I", "_",
                 "A", "P", "I", "_", "K", "E", "Y">>]

\* `[Error: ${err instanceof Error ? err.message : "Unknown error"}]`
ErrorText(err) ==
  <<"[", "E", "r", "r", "o", "r", ":", " ">>
    \o (IF err.isError THEN err.message
        ELSE <<"U", "n", "k", "n", "o", "w", "n", " ", "e", "r", "r", "o", "r">>)
    \o <<"]">>

\* The entries of streamLog.
Enqueued(chunk) == [op |-> "enqueue", chunk |-> chunk]
Closed == [op |-> "close", chunk |-> <<>>]
Cancelled == [op |-> "cancel", chunk |-> <<>>]

\* The stream is readable: it was neither closed by the controller nor
\* cancelled by its consumer.
Readable(log) == \A k \in 1..Len(log) : log[k].op = "enqueue"

\* controller.enqueue(chunk) and controller.close(): each throws a
\* TypeError, and changes nothing, on a stream that is not readable.
TryEnqueue(log, chunk) == IF Readable(log) THEN Append(log, Enqueued(chunk)) ELSE log
TryClose(log) == IF Readable(log) THEN Append(log, Closed) ELSE log

\* Mutant: the error text is enqueued and the stream is left open.
CatchWithoutFinally(log, err) == TryEnqueue(log, ErrorText(err))

\* catch (err) { controller.enqueue(...) } finally { controller.close() }:
\* the finally block runs also when the enqueue of the catch block throws.
CatchAndFinally(log, err) == TryClose(TryEnqueue(log, ErrorText(err)))

\* The bodies of the model: one that does not parse, one without messages,
\* one whose messages is not an array, and arrays of messages by role.
Bodies ==
  {[parses |-> FALSE, isArray |-> FALSE, roles |-> <<>>],
   [parses |-> TRUE, isArray |-> FALSE, roles |-> <<>>]}
  \cup {[parses |-> TRUE, isArray |-> TRUE, roles |-> r] :
          r \in {<<>>, <<"assistant">>, <<"user">>, <<"user", "assistant">>,
                 <<"user", "assistant", "user">>}}

\* The two checks of POST on body.messages ?? [].
PassesValidation(b) ==
  /\ b.isArray
  /\ Len(b.roles) > 0
  /\ b.roles[Len(b.roles)] = "user"

\* POST up to the Response it returns: 500 when the body does not parse,
\* 400 when validation fails, and otherwise the stream, whose start calls
\* streamChatCompletion.
Post ==
  /\ cpc = "idle"
  /\ IF ~body.parses THEN httpStatus' = 500 /\ cpc' = "responded"
     ELSE IF ~PassesValidation(body) THEN httpStatus' = 400 /\ cpc' = "responded"
     ELSE httpStatus' = 200 /\ cpc' = "streaming"
  /\ UNCHANGED <<body, provider, streamLog, received, thrown>>
  /\ UNCHANGED <<auditVars, riskVars, segVars, ingestVars, matchVars, guideVars>>

\* The provider's stream delivers a chunk: a chunk with text is yielded and
\* enqueued; when the enqueue throws, the catch and the finally block run
\* with the TypeError.
LlmChunk ==
  /\ cpc = "streaming"
  /\ provider # "none"
  /\ Len(received) < MaxChunks
  /\ \E text \in LlmTexts :
       IF text = <<>> THEN UNCHANGED <<cpc, streamLog, received>>
       ELSE /\ received' = Append(received, text)
            /\ IF Readable(streamLog)
                 THEN streamLog' = TryEnqueue(streamLog, text) /\ cpc' = cpc
                 ELSE /\ streamLog' =
                           CatchAndFinally(streamLog,
                                           [isError |-> TRUE, message |-> <<>>])
                      /\ cpc' = "finished"
  /\ UNCHANGED <<body, provider, httpStatus, thrown>>
  /\ UNCHANGED <<auditVars, riskVars, segVars, ingestVars, matchVars, guideVars>>

\* The provider's stream ends: the loop ends and the finally block runs.
LlmEnds ==
  /\ cpc = "streaming"
  /\ provider # "none"
  /\ streamLog' = TryClose(streamLog)
  /\ cpc' = "finished"
  /\ UNCHANGED <<body, provider, httpStatus, received, thrown>>
  /\ UNCHANGED <<auditVars, riskVars, segVars, ingestVars, matchVars, guideVars>>

\* streamChatCompletion throws: at once when no provider key is configured,
\* at any point when the provider's call or stream fails.
LlmThrows ==
  /\ cpc = "streaming"
  /\ \E err \in (IF provider = "none" THEN {NoProviderError} ELSE Errors) :
       /\ thrown' = Some(ErrorText(err))
       /\ streamLog' = CatchAndFinally(streamLog, err)
  /\ cpc' = "finished"
  /\ UNCHANGED <<body, provider, httpStatus, received>>
  /\ UNCHANGED <<auditVars, riskVars, segVars, ingestVars, matchVars, guideVars>>

\* The consumer of the response (the client went away) cancels the stream
\* while it is open.
ClientCancels ==
  /\ cpc = "streaming"
  /\ Readable(streamLog)
  /\ streamLog' = Append(streamLog, Cancelled)
  /\ UNCHANGED <<cpc, body, provider, httpStatus, received, thrown>>
  /\ UNCHANGED <<auditVars, riskVars, segVars, ingestVars, matchVars, guideVars>>

InitChat ==
  /\ AuditIdle
  /\ RiskIdle
  /\ SegIdle
  /\ IngestIdle
  /\ MatchIdle
  /\ GuideIdle
  /\ cpc = "idle"
  /\ body \in Bodies
  /\ provider \in {"gemini", "openai", "none"}
  /\ httpStatus = 0
  /\ streamLog = <<>>
  /\ received = <<>>
  /\ thrown = Null

NextChat ==
  \/ Post
  \/ LlmChunk
  \/ LlmEnds
  \/ LlmThrows
  \/ ClientCancels

SpecChat == InitChat /\ [][NextChat]_vars

-----------------------------------------------------------------------------
(* Claims about the chat stream, checked under SpecChat                    *)

\* The positions of streamLog at which the stream was closed, by the
\* controller or by its consumer, and the chunks enqueued, in order.
Closings == {k \in 1..Len(streamLog) : streamLog[k].op # "enqueue"}
EnqueuedChunks ==
  LET IsEnqueue(e) == e.op = "enqueue"
      es == SelectSeq(streamLog, IsEnqueue) IN
  [k \in 1..Len(es) |-> es[k].chunk]

\* The stream was closed exactly once, and nothing happened to it after.
ClosedOnceAtEnd == Closings = {Len(streamLog)} /\ Len(streamLog) > 0

\* The chunks received, followed by the error text if the LLM stream threw.
ReceivedThenError == received \o (IF thrown.null THEN <<>> ELSE <<thrown.str>>)

\* C29 as stated: for a POST that passes validation, once the LLM stream has
\* ended or thrown the stream has been closed exactly once, after the last
\* enqueued chunk; the chunks received are enqueued in order, followed by
\* the error text when the LLM stream threw; nothing is enqueued after the
\* close.
C29_AsStated ==
  /\ Closings # {} => Closings = {Len(streamLog)}
  /\ cpc = "finished" =>
       /\ ClosedOnceAtEnd
       /\ EnqueuedChunks = ReceivedThenError

\* C29, amended: the same as long as the consumer has not cancelled the
\* stream; when it has, the cancel is the one close of the stream, and the
\* chunks enqueued are the chunks received before it, without the error
\* text.
C29_ClosedOnceUnlessCancelled ==
  /\ Closings # {} => Closings = {Len(streamLog)}
  /\ httpStatus # 200 => streamLog = <<>>
  /\ cpc = "finished" =>
       /\ ClosedOnceAtEnd
       /\ IF streamLog[Len(streamLog)] = Closed
            THEN EnqueuedChunks = ReceivedThenError
            ELSE /\ IsPrefix(EnqueuedChunks, received)
                 /\ Len(EnqueuedChunks) < Len(ReceivedThenError)
                      \/ (thrown.null /\ EnqueuedChunks = received)
  /\ cpc = "streaming" =>
       IF Readable(streamLog) THEN EnqueuedChunks = received /\ thrown.null
       ELSE /\ streamLog[Len(streamLog)] = Cancelled
            /\ EnqueuedChunks = received

\* The LLM stream threw after two chunks: the log is the two chunks, the
\* error text and the close.
C29_Witness ==
  /\ cpc = "finished"
  /\ Len(received) = 2
  /\ ~thrown.null
  /\ streamLog = <<Enqueued(received[1]), Enqueued(received[2]),
                   Enqueued(ErrorText([isError |-> TRUE,
                                       message |-> <<"q", "u", "o", "t", "a">>])),
                   Closed>>

-----------------------------------------------------------------------------
(* GuidanceLoader: loadGuidanceContext                                     *)

\* The number of files in the docs directory.
MaxDocs == 3

\* The longest trimmed paragraph the filter of the loader drops.
MinParagraphLength == 50

\* The names of the files of the directory, in directory order.
DocNames ==
  << <<"g", "1", ".", "p", "d", "f">>,
     <<"n", "o", "t", "e", "s", ".", "t", "x", "t">>,
     <<"g", "2", ".", "P", "D", "F">>,
     <<"g", "3", ".", "p", "d", "f">> >>

DotPdf == <<".", "p", "d", "f">>

\* f.toLowerCase().endsWith(".pdf")
IsPdf(name) == IsSuffix(DotPdf, ToLowerCase(name))

\* data.text of a readable file: no text; one paragraph of 51 characters;
\* paragraphs of 51 and 60; a paragraph of 51 between two spaces and one of
\* 50; paragraphs of 60 and 51.
GuideTexts ==
  { <<>>,
    Para("a", MinParagraphLength + 1),
    Para("a", MinParagraphLength + 1) \o <<NL, NL>> \o Para("b", 60),
    <<" ">> \o Para("c", MinParagraphLength + 1) \o <<" ", NL, NL>>
      \o Para("d", MinParagraphLength),
    Para("e", 60) \o <<NL, NL>> \o Para("f", MinParagraphLength + 1) }

\* What reading and parsing a file gives: a text, or an exception.
Unreadable == [readable |-> FALSE, text |-> <<>>]
FileContents(name) ==
  IF IsPdf(name) THEN {Unreadable} \cup {[readable |-> TRUE, text |-> t] : t \in GuideTexts}
  ELSE {Unreadable}

\* The values of maxChars in the model.
MaxCharsValues == {0, 51, 53, 111, 200}

\* files.filter((f) => f.toLowerCase().endsWith(".pdf")), as positions.
RECURSIVE PdfPositions(_, _)
PdfPositions(files, k) ==
  IF k > Len(files) THEN <<>>
  ELSE (IF IsPdf(files[k].name) THEN <<k>> ELSE <<>>) \o PdfPositions(files, k + 1)
guidancePdfFiles == PdfPositions(docs.files, 1)

\* data.text.split(/\n\s*\n+/).filter((p) => p.trim().length > 50)
GuidanceParagraphs(text) ==
  SelectSeq(SplitParagraphs(text), LAMBDA p : Len(Trim(p)) > MinParagraphLength)

\* Mutant: the loop over the files goes on until the total exceeds maxChars.
BudgetExceeded(total, max) == total > max

\* if (totalChars >= maxChars) break;
BudgetReached(total, max) == total >= max

\* The loop over the paragraphs of a file from paragraph k on: a paragraph
\* that does not fit ends the loop; one that fits is pushed trimmed and
\* its untrimmed length is added to the total.
RECURSIVE ParagraphLoop(_, _, _, _, _)
ParagraphLoop(paras, k, file, pushed, total) ==
  IF k > Len(paras) THEN [chunks |-> pushed, totalChars |-> total]
  ELSE IF total + Len(paras[k]) > maxChars
    THEN [chunks |-> pushed, totalChars |-> total]
    ELSE ParagraphLoop(paras, k + 1, file,
                       Append(pushed, [file |-> file, text |-> Trim(paras[k]),
                                       counted |-> Len(paras[k]),
                                       before |-> total]),
                       total + Len(paras[k]))

GuidanceHeader ==
  <<NL, "-", "-", "-", " ", "L", "O", "C", "A", "L", " ", "F", "D", "A", " ",
    "G", "U", "I", "D", "A", "N", "C", "E", " ", "(", "p", "l", "a", "c",
    "e", " ", "P", "D", "F", "s", " ", "i", "n", " ", "/", "d", "o", "c",
    "s", ")", " ", "-", "-", "-", NL>>
GuidanceSeparator == <<NL, NL, "-", "-", "-", NL, NL>>
GuidanceFooter ==
  <<NL, "-", "-", "-", " ", "E", "N", "D", " ", "G", "U", "I", "D", "A", "N",
    "C", "E", " ", "-", "-", "-", NL>>

\* `[${file}]\n${p.trim()}` of each chunk, joined with the separator.
RECURSIVE JoinChunks(_, _)
JoinChunks(cs, k) ==
  IF k > Len(cs) THEN <<>>
  ELSE (IF k > 1 THEN GuidanceSeparator ELSE <<>>)
         \o <<"[">> \o docs.files[cs[k].file].name \o <<"]", NL>> \o cs[k].text
         \o JoinChunks(cs, k + 1)

\* The value returned for the chunks.
GuidanceText(cs) ==
  IF Len(cs) = 0 THEN <<>>
  ELSE GuidanceHeader \o JoinChunks(cs, 1) \o GuidanceFooter

\* The head of the loop over the files for the n-th PDF file, given the
\* chunks and the total so far: the function returns when the files are
\* used up or the total has reached maxChars, and reads the file otherwise.
LoopHead(n, cs, total) ==
  IF n > Len(guidancePdfFiles) \/ BudgetReached(total, maxChars)
    THEN /\ gpc' = "returned"
         /\ guidanceContext' = GuidanceText(cs)
         /\ UNCHANGED <<docNo, opened>>
    ELSE /\ gpc' = "readFile"
         /\ docNo' = n
         /\ opened' = Append(opened, [file |-> guidancePdfFiles[n], total |-> total])
         /\ UNCHANGED guidanceContext

\* loadGuidanceContext up to its first readFile, or to its return when the
\* directory is missing, holds no PDF or maxChars is 0.
GuideStart ==
  /\ gpc = "start"
  /\ IF ~docs.exists \/ Len(guidancePdfFiles) = 0
       THEN /\ gpc' = "returned"
            /\ guidanceContext' = <<>>
            /\ UNCHANGED <<docNo, opened>>
       ELSE LoopHead(1, <<>>, 0)
  /\ UNCHANGED <<docs, maxChars, guidanceChunks, totalChars>>
  /\ UNCHANGED <<auditVars, riskVars, segVars, ingestVars, matchVars, chatVars>>

\* readFile and pdfParse resolve: the paragraphs of the file are walked,
\* then the loop goes to its next file.
FileParsed ==
  /\ gpc = "readFile"
  /\ docs.files[guidancePdfFiles[docNo]].readable
  /\ LET loop == ParagraphLoop(
                   GuidanceParagraphs(docs.files[guidancePdfFiles[docNo]].text),
                   1, guidancePdfFiles[docNo], guidanceChunks, totalChars) IN
     /\ guidanceChunks' = loop.chunks
     /\ totalChars' = loop.totalChars
     /\ LoopHead(docNo + 1, loop.chunks, loop.totalChars)
  /\ UNCHANGED <<docs, maxChars>>
  /\ UNCHANGED <<auditVars, riskVars, segVars, ingestVars, matchVars, chatVars>>

\* readFile or pdfParse rejects: the warning, then the next file.
FileFails ==
  /\ gpc = "readFile"
  /\ ~docs.files[guidancePdfFiles[docNo]].readable
  /\ LoopHead(docNo + 1, guidanceChunks, totalChars)
  /\ UNCHANGED <<docs, maxChars, guidanceChunks, totalChars>>
  /\ UNCHANGED <<auditVars, riskVars, segVars, ingestVars, matchVars, chatVars>>

\* The directories of the model: the first n names, each file with any of
\* its contents.
Directories ==
  UNION {{[k \in 1..n |-> [name |-> DocNames[k], readable |-> c[k].readable,
                           text |-> c[k].text]] :
            c \in {d \in [1..n -> UNION {FileContents(DocNames[k]) : k \in 1..n}] :
                     \A k \in 1..n : d[k] \in FileContents(DocNames[k])}} :
         n \in 0..MaxDocs}

InitGuide ==
  /\ AuditIdle
  /\ RiskIdle
  /\ SegIdle
  /\ IngestIdle
  /\ MatchIdle
  /\ ChatIdle
  /\ gpc = "start"
  /\ docs \in [exists : BOOLEAN, files : Directories]
  /\ maxChars \in MaxCharsValues
  /\ docNo = 0
  /\ opened = <<>>
  /\ guidanceChunks = <<>>
  /\ totalChars = 0
  /\ guidanceContext = <<>>

NextGuide ==
  \/ GuideStart
  \/ FileParsed
  \/ FileFails

SpecGuide == InitGuide /\ [][NextGuide]_vars

-----------------------------------------------------------------------------
(* Claims about the guidance loader, checked under SpecGuide               *)

\* The total of the lengths of the paragraphs pushed before position k: as
\* counted by the loader (untrimmed), and as included (trimmed).
RECURSIVE CountedBefore(_)
CountedBefore(k) ==
  IF k <= 1 THEN 0 ELSE CountedBefore(k - 1) + guidanceChunks[k - 1].counted
RECURSIVE IncludedBefore(_)
IncludedBefore(k) ==
  IF k <= 1 THEN 0 ELSE IncludedBefore(k - 1) + Len(guidanceChunks[k - 1].text)

\* The running total when the file at position f of the directory was
\* opened: the counted lengths of the paragraphs of the files before it.
RECURSIVE CountedOfFilesBefore(_, _)
CountedOfFilesBefore(f, k) ==
  IF k > Len(guidanceChunks) THEN 0
  ELSE (IF guidanceChunks[k].file < f THEN guidanceChunks[k].counted ELSE 0)
         + CountedOfFilesBefore(f, k + 1)

\* C30: the paragraphs included have a total length of at most maxChars; a
\* paragraph is added only if the running total plus its length does not
\* exceed maxChars; no file is opened once the running total has reached
\* maxChars.
C30_WithinBudget ==
  /\ IncludedBefore(Len(guidanceChunks) + 1) <= maxChars
  /\ CountedBefore(Len(guidanceChunks) + 1) <= maxChars
  /\ totalChars = CountedBefore(Len(guidanceChunks) + 1)
  /\ \A k \in 1..Len(guidanceChunks) :
       /\ guidanceChunks[k].before = CountedBefore(k)
       /\ CountedBefore(k) + guidanceChunks[k].counted <= maxChars
       /\ Len(guidanceChunks[k].text) <= guidanceChunks[k].counted
       /\ \E o \in 1..Len(opened) : opened[o].file = guidanceChunks[k].file
  /\ \A o \in 1..Len(opened) :
       /\ opened[o].total < maxChars
       /\ gpc = "returned" => opened[o].total = CountedOfFilesBefore(opened[o].file, 1)
  /\ gpc = "returned" =>
       \A k \in 1..Len(guidanceChunks) :
         IsSubstring(guidanceChunks[k].text, guidanceContext)

\* maxChars is 111 and the first file holds paragraphs of 51 and 60
\* characters: both are included, the total has reached maxChars, and the
\* second PDF file is not opened.
C30_Witness ==
  /\ gpc = "returned"
  /\ maxChars = 111
  /\ Len(guidancePdfFiles) = 2
  /\ Len(guidanceChunks) = 2
  /\ totalChars = maxChars
  /\ Len(opened) = 1
  /\ guidanceContext # <<>>

====
